---- MODULE Spec2Model ----
(***************************************************************************)
(* A model of the code that generate.py emits: the dynamic (Python)        *)
(* library and the native (C) source.  The generator is a deterministic    *)
(* template expander, so every operator below is the meaning of the lines  *)
(* one generate_* method emits, named after that method or after the       *)
(* emitted function.                                                       *)
(*                                                                         *)
(* Three state machines share the module:                                  *)
(*   SpecCodec  the integer and varint helpers applied to drawn inputs;    *)
(*   Spec       one instance of a generated Python class: constructor,     *)
(*              property setters and getters, serialize, deserialize, and  *)
(*              the native serialize of the same value;                    *)
(*   SpecC      the native heap: T_new, T_set_*, T_copy, T_free, and       *)
(*              T_verify / T_deserialize over byte buffers.                *)
(***************************************************************************)
EXTENDS Integers, Sequences, FiniteSets, TLC

VARIABLES
    \* ---- SpecCodec
    cx,      \* the integer handed to a helper: [neg, mag]
    cw,      \* the byte width handed to uintN / the C integer write
    hostLE,  \* TRUE when the C build targets a little-endian host
    cop,     \* the helper that ran last
    cbuf,    \* the bytes it produced
    cerr,    \* the Python exception it raised, "" when none
    cval,    \* the integer a decoder returned
    cidx,    \* the read cursor a decoder left
    \* ---- Spec
    tbase,   \* the number of structs and tables declared before the schema below
    cur,     \* the class of the instance under test (an index into Schema)
    obj,     \* its slots _<field>, in declaration order
    pop,     \* the method that ran last
    parg,    \* the member (1-based) and the value handed to the accessor that ran last
    pyerr,   \* the exception that method raised, "" when none
    wire,    \* the bytes serialize returned
    back,    \* the instance deserialize returned
    got,     \* the value the property getter returned
    cwire,   \* the buffer and size the native serialize of the same value returned
    \* ---- SpecC, SpecWire
    heap,    \* the native heap: [m: address -> block, bad]
    roots,   \* the pointers the caller holds, 0 for NULL
    cd,      \* the class of roots[2] and roots[3]
    clast,   \* the native call made last: [op, r, ok, f, had, out]
    ncalls,  \* the number of native calls made
    nbuf,    \* the buffer handed to verify and deserialize
    nver,    \* what verify returned: "none", "true", "false"
    ndes,    \* what deserialize returned: "none", "instance", "null", "nomem"
    \* ---- SpecSchema
    definitions,    \* Schema.definitions: the declarations, in insertion order
    next_table_id,  \* Schema.next_table_id
    sphase,         \* how far main has come: "parse", "resolved", "valid",
                    \* "python", "c_source", "header", or "error" when the
                    \* run has ended before
    serror,         \* the exception raised: its type and the names it carries
    TableType_e,    \* the enumerators of typedef enum TableType_e: <<name, value>>
    written,        \* the files written so far, in order: <<file, content>>
    exit_status,    \* what sys.exit(main()) hands to the system, -1 while running
    \* ---- SpecLex
    text,    \* the characters handed to SeriaLexer.tokenize, as code points
    index,   \* the number of characters the lexer has consumed
    tok      \* the token produced last: [type, value, err]

cVars == <<heap, roots, cd, clast, ncalls, nbuf, nver, ndes>>

codecVars == <<cx, cw, hostLE, cop, cbuf, cerr, cval, cidx>>

pyVars == <<tbase, cur, obj, pop, parg, pyerr, wire, back, got, cwire>>

schemaVars == <<definitions, next_table_id, sphase, serror, TableType_e, written,
               exit_status>>

lexVars == <<text, index, tok>>

vars == <<codecVars, pyVars, cVars, schemaVars, lexVars>>

(***************************************************************************)
(* Integers.  Python ints are unbounded and C's size_t is 64 bits wide;    *)
(* TLC's integers are 32 bits wide.  A magnitude is therefore its          *)
(* little-endian base-256 digit sequence without leading zero digits,      *)
(* which is also the byte string the helpers produce from it.              *)
(***************************************************************************)
RECURSIVE Norm(_)
Norm(d) ==
    IF d = <<>> THEN <<>>
    ELSE IF d[Len(d)] = 0 THEN Norm(SubSeq(d, 1, Len(d) - 1))
    ELSE d

RECURSIVE FromInt(_)
FromInt(n) == IF n = 0 THEN <<>> ELSE <<n % 256>> \o FromInt(n \div 256)

Reverse(s) == [i \in 1..Len(s) |-> s[Len(s) + 1 - i]]

Pad(d, w) == d \o [i \in 1..(w - Len(d)) |-> 0]

\* a > b on canonical magnitudes
DGt(a, b) ==
    \/ Len(a) > Len(b)
    \/ /\ Len(a) = Len(b)
       /\ \E i \in 1..Len(a) :
            /\ a[i] > b[i]
            /\ \A j \in (i + 1)..Len(a) : a[j] = b[j]

PyInt(n) == [neg |-> n < 0, mag |-> FromInt(IF n < 0 THEN 0 - n ELSE n)]

X_FD == <<253>>
X_FFFF == <<255, 255>>
X_FFFFFFFF == <<255, 255, 255, 255>>

(***************************************************************************)
(* The helpers of the generated Python module.                             *)
(***************************************************************************)
\* int.to_bytes(width, 'big', signed=False)
to_bytes_big(x, w) ==
    IF x.neg \/ Len(x.mag) > w
    THEN [err |-> "OverflowError", bytes |-> <<>>]
    ELSE [err |-> "", bytes |-> Reverse(Pad(x.mag, w))]

\* def uint8 / uint16 / uint32 / uint64 (value)
uintN(x, w) == to_bytes_big(x, w)

\* def unsigned_int(buf): int.from_bytes(buf, 'big', signed=False)
unsigned_int(b) == [neg |-> FALSE, mag |-> Norm(Reverse(b))]

\* Python's slice buf[i:i+n] with a 0-based i: it is cut at the end of buf
Slice(b, i, n) ==
    SubSeq(b, i + 1, IF i + n > Len(b) THEN Len(b) ELSE i + n)

\* the lines serialize_py_varint emits, run on the local buf
py_varint_long(buf, x) ==
    [err |-> "NameError", buf |-> buf \o uintN(PyInt(255), 1).bytes]

serialize_py_varint(buf, x) ==
    IF DGt(x.mag, X_FFFFFFFF) THEN
        \* buf.extend(uint64(length)): no name "length" is bound in serialize
        py_varint_long(buf, x)
    ELSE IF DGt(x.mag, X_FFFF) THEN
        [err |-> "", buf |-> buf \o uintN(PyInt(254), 1).bytes \o uintN(x, 4).bytes]
    ELSE IF ~DGt(X_FD, x.mag) THEN
        [err |-> "", buf |-> buf \o uintN(PyInt(253), 1).bytes \o uintN(x, 2).bytes]
    ELSE
        [err |-> uintN(x, 1).err, buf |-> buf \o uintN(x, 1).bytes]

\* the lines deserialize_py_varint emits; idx is the 0-based buf_index
py_unvarint_width(specifier) ==
    IF specifier = 255 THEN 8
    ELSE IF specifier = 254 THEN 4
    ELSE IF specifier = 253 THEN 2
    ELSE 0

deserialize_py_varint(buf, idx) ==
    IF idx >= Len(buf)
    THEN [err |-> "IndexError", val |-> PyInt(0), idx |-> idx]
    ELSE LET specifier == buf[idx + 1]
             w == py_unvarint_width(specifier)
         IN  IF w = 0
             THEN [err |-> "", val |-> PyInt(specifier), idx |-> idx + 1]
             ELSE [err |-> "", val |-> unsigned_int(Slice(buf, idx + 1, w)),
                   idx |-> idx + 1 + w]

(***************************************************************************)
(* The integer code of the generated C source.                             *)
(***************************************************************************)
\* ((uintW_t*)(buffer + bytes_written))[0] = (uintW_t)(expr): the low w bytes
\* of a size_t, stored in the byte order of the host
c_store(mag, w, le) ==
    LET low == SubSeq(Pad(mag, 8), 1, w)
    IN  IF le THEN low ELSE Reverse(low)

\* the lines serialize_c_varint emits, as the bytes they append
serialize_c_varint(mag, le) ==
    IF DGt(mag, X_FFFFFFFF) THEN <<255>> \o c_store(mag, 8, le)
    ELSE IF DGt(mag, X_FFFF) THEN <<254>> \o c_store(mag, 4, le)
    ELSE IF ~DGt(X_FD, mag) THEN <<253>> \o c_store(mag, 2, le)
    ELSE c_store(mag, 1, le)

\* beWtoh(*(uintW_t*)(buffer + bytes_read)): the bytes read most significant
\* first on either host.  be8toh is declared nowhere; it is taken as the
\* identity on one byte, the only reading under which the source links.
beNtoh(b) == Norm(Reverse(b))

\* the lines deserialize_c_int emits; ok = FALSE is the jump to ERROR
deserialize_c_int(buffer, bytes_read, size) ==
    IF bytes_read + size > Len(buffer)
    THEN [ok |-> FALSE, val |-> <<>>, bytes_read |-> bytes_read]
    ELSE [ok |-> TRUE,
          val |-> beNtoh(SubSeq(buffer, bytes_read + 1, bytes_read + size)),
          bytes_read |-> bytes_read + size]

\* the lines deserialize_c_varint emits
deserialize_c_varint(buffer, bytes_read) ==
    IF bytes_read + 1 > Len(buffer)
    THEN [ok |-> FALSE, val |-> <<>>, bytes_read |-> bytes_read]
    ELSE IF buffer[bytes_read + 1] = 255 THEN deserialize_c_int(buffer, bytes_read + 1, 8)
    ELSE IF buffer[bytes_read + 1] = 254 THEN deserialize_c_int(buffer, bytes_read + 1, 4)
    ELSE IF buffer[bytes_read + 1] = 253 THEN deserialize_c_int(buffer, bytes_read + 1, 2)
    ELSE deserialize_c_int(buffer, bytes_read, 1)

(***************************************************************************)
(* The schema the instances below belong to.  It stands for the text       *)
(*                                                                         *)
(*   enum   Color : uint8 { RED = 1, GREEN, BLUE }                         *)
(*   struct Empty { }                                                      *)
(*   table  Inner { x: uint16; }                                           *)
(*   table  Pixel { r: uint8; c: Color = 2; name: string = "anon";         *)
(*                  on: boolean = true; }                                  *)
(*   table  Bag   { bits: [boolean]; xs: [uint16:2]; ss: [string];         *)
(*                  ds: [uint8] = 5; fs: [uint8:2] = 7; }                  *)
(*   table  Outer { i: Inner; is: [Inner]; y: int8; }                      *)
(*   table  Wide  { f0: uint8; ... f8: uint8; }                            *)
(*   table  Zed   { z: [uint8:0]; }                                        *)
(*                                                                         *)
(* after resolve_types and validate, preceded in its file by tbase other   *)
(* structs, so that Empty has table_id tbase, Inner tbase + 1, and so on.  *)
(***************************************************************************)
\* Python values: None, int, bool, str (code points), IntEnum member, list,
\* and an instance of a generated class
None_ == [k |-> "none", v |-> 0]
I(n) == [k |-> "int", v |-> n]
B(b) == [k |-> "bool", v |-> b]
S(cs) == [k |-> "str", v |-> cs]
E(n) == [k |-> "enum", v |-> n]
L(xs) == [k |-> "list", v |-> xs]
O(d, fs) == [k |-> "obj", v |-> [d |-> d, f |-> fs]]

\* StructMember: vsize = -1 stands for vector_size None, dflt = None_ for no
\* default; dom lists the values the model hands to the member's setter
M(name, kind, width, ref, vector, vsize, dflt, dom) ==
    [name |-> name, kind |-> kind, width |-> width, ref |-> ref, signed |-> FALSE,
     vector |-> vector, vsize |-> vsize, dflt |-> dflt, dom |-> dom]

\* a member of one of the types Int8 .. Int64
Signed(m) == [m EXCEPT !.signed = TRUE]

\* EnumDefinition.values of Color after EnumMember.resolve_value
ColorValues == {1, 2, 3}

WideMember(n) == M(n, "int", 1, 0, FALSE, -1, None_, <<None_, I(7)>>)

Schema ==
    << [name |-> "Empty", members |-> <<>>],
       [name |-> "Inner", members |->
          << M("x", "int", 2, 0, FALSE, -1, None_, <<None_, I(1), I(258)>>) >>],
       [name |-> "Pixel", members |->
          << M("r", "int", 1, 0, FALSE, -1, None_, <<None_, I(1), I(258)>>),
             M("c", "enum", 1, 0, FALSE, -1, I(2), <<None_, I(3), I(9)>>),
             M("name", "str", 0, 0, FALSE, -1, S(<<97, 110, 111, 110>>),
               <<None_, S(<<97>>), S(<<233, 97>>)>>),
             M("on", "bool", 0, 0, FALSE, -1, I(1), <<None_, B(1), B(0)>>) >>],
       [name |-> "Bag", members |->
          << M("bits", "bool", 0, 0, TRUE, -1, None_,
               <<L(<<>>), L(<<B(1)>>),
                 L(<<B(1), B(0), B(1), B(1), B(0), B(0), B(0), B(0), B(1)>>)>>),
             M("xs", "int", 2, 0, TRUE, 2, None_,
               <<None_, L(<<>>), L(<<I(1)>>), L(<<I(1), I(258)>>),
                 L(<<I(1), I(2), I(3)>>)>>),
             M("ss", "str", 0, 0, TRUE, -1, None_,
               <<L(<<>>), L(<<S(<<97>>)>>), L(<<S(<<>>), S(<<233, 97>>)>>)>>),
             M("ds", "int", 1, 0, TRUE, -1, I(5), <<L(<<>>), L(<<I(1)>>)>>),
             M("fs", "int", 1, 0, TRUE, 2, I(7), <<None_, L(<<I(1), I(2)>>)>>) >>],
       [name |-> "Outer", members |->
          << M("i", "struct", 0, 2, FALSE, -1, None_,
               <<None_, O(2, <<None_>>), O(2, <<I(258)>>)>>),
             M("is", "struct", 0, 2, TRUE, -1, None_,
               <<L(<<>>), L(<<O(2, <<I(1)>>)>>),
                 L(<<O(2, <<None_>>), O(2, <<I(258)>>)>>)>>),
             Signed(M("y", "int", 1, 0, FALSE, -1, None_, <<None_, I(1), I(-1)>>)) >>],
       [name |-> "Wide", members |->
          << WideMember("f0"), WideMember("f1"), WideMember("f2"),
             WideMember("f3"), WideMember("f4"), WideMember("f5"),
             WideMember("f6"), WideMember("f7"), WideMember("f8") >>],
       [name |-> "Zed", members |->
          << M("z", "int", 1, 0, TRUE, 0, None_,
               <<None_, L(<<>>), L(<<I(1)>>)>>) >>] >>

Members(d) == Schema[d].members

NMembers(d) == Len(Members(d))

\* Schema.resolve_types: table_id from next_table_id, in order of appearance
table_id(d) == tbase + d - 1

\* ... and field_id from next_field_id, in declaration order
field_id(f) == f - 1

Unbounded(m) == m.vector /\ m.vsize = -1

(***************************************************************************)
(* A generated class: __init__, the property of each member, serialize and *)
(* deserialize.                                                            *)
(***************************************************************************)
\* generate_python_initialize with every parameter left at None
py_initialize(m) == IF Unbounded(m) THEN L(<<>>) ELSE None_

\* cls()
py_new(d) == [f \in 1..NMembers(d) |-> py_initialize(Members(d)[f])]

\* "if value is not None and len(value) != {vector_size}", which the generator
\* emits "if member.vector and member.vector_size"
py_checks_length(m) == m.vector /\ m.vsize # -1 /\ m.vsize # 0

\* the property setter: the new slot value, or the exception raised
py_setter(m, value) ==
    IF py_checks_length(m) /\ value.k # "none" /\ Len(value.v) # m.vsize
    THEN [err |-> "ValueError", set |-> FALSE, v |-> None_]
    ELSE IF ~m.vector /\ m.kind = "enum"
    THEN IF value.k = "none" THEN [err |-> "", set |-> TRUE, v |-> None_]
         ELSE IF value.v \in ColorValues
         THEN [err |-> "", set |-> TRUE, v |-> E(value.v)]
         ELSE [err |-> "ValueError", set |-> FALSE, v |-> None_]
    ELSE [err |-> "", set |-> TRUE, v |-> value]

\* repr(bool(default)) for a boolean, {type_name}({default}) for an enum,
\* repr(default) otherwise
py_default(m) ==
    IF m.kind = "bool" THEN B(IF m.dflt.v # 0 THEN 1 ELSE 0)
    ELSE IF m.kind = "enum" THEN E(m.dflt.v)
    ELSE m.dflt

\* the property getter
py_getter(m, slot) ==
    IF m.dflt.k # "none"
    THEN IF slot.k = "none" THEN py_default(m) ELSE slot
    ELSE slot

\* __repr__: "if len(self.{field}) > 0" for a vector of no fixed size and
\* "if self.{field} is not None" otherwise, both read through the property
py_repr_lists(m, slot) ==
    IF Unbounded(m) THEN Len(py_getter(m, slot).v) > 0
    ELSE py_getter(m, slot).k # "none"

\* len(None)
py_repr_raises(m, slot) == Unbounded(m) /\ py_getter(m, slot).k = "none"

\* values.append('{field}=' + repr(self.{field})), member after member
RECURSIVE py_repr_values(_, _, _)
py_repr_values(d, o, f) ==
    IF f > NMembers(d) THEN <<>>
    ELSE (IF py_repr_lists(Members(d)[f], o[f])
          THEN <<[f |-> f, value |-> py_getter(Members(d)[f], o[f])]>>
          ELSE <<>>) \o py_repr_values(d, o, f + 1)

\* repr(instance)
py_repr(d, o) ==
    IF \E f \in 1..NMembers(d) : py_repr_raises(Members(d)[f], o[f])
    THEN [err |-> "TypeError", v |-> <<>>]
    ELSE [err |-> "", v |-> py_repr_values(d, o, 1)]

\* str.encode('utf-8'), for code points below 0x10000
utf8_char(c) ==
    IF c < 128 THEN <<c>>
    ELSE IF c < 2048 THEN <<192 + (c \div 64), 128 + (c % 64)>>
    ELSE <<224 + (c \div 4096), 128 + ((c \div 64) % 64), 128 + (c % 64)>>

RECURSIVE utf8(_)
utf8(cs) == IF cs = <<>> THEN <<>> ELSE utf8_char(Head(cs)) \o utf8(Tail(cs))

\* byte | (1 << bit)
OrBit(byte, bit) ==
    IF (byte \div (2 ^ bit)) % 2 = 1 THEN byte ELSE byte + 2 ^ bit

\* presence bits packed least significant bit first
py_bit_lsb(n) == n % 8

\* 7 - n & 7, which Python reads (7 - n) & 7
py_bit(n) == (7 - n) % 8

Zeros(n) == [i \in 1..n |-> 0]

\* the serialize presence test of a member
py_present(m, slot) ==
    IF Unbounded(m)
    THEN slot.k = "list" /\ Len(slot.v) > 0
    ELSE slot.k # "none"

\* the table id bytes chosen when the class is generated
py_table_id_bytes(id) ==
    IF DGt(PyInt(id).mag, X_FFFFFFFF)
    THEN <<48, 120, 70, 70>> \o uintN(PyInt(id), 8).bytes
    ELSE IF DGt(PyInt(id).mag, X_FFFF)
    THEN <<48, 120, 70, 69>> \o uintN(PyInt(id), 4).bytes
    ELSE IF id >= 253
    THEN <<48, 120, 70, 68>> \o uintN(PyInt(id), 2).bytes
    ELSE uintN(PyInt(id), 1).bytes

\* (len(self.members) - 1) // 8 + 1
bitfield_byte_width(d) == ((NMembers(d) - 1) \div 8) + 1

RECURSIVE py_serialize(_), py_members(_, _, _, _, _), py_elements(_, _, _, _, _)

\* one element (or the scalar value) of a member, appended to st.buf
py_value(m, e, st) ==
    IF m.kind = "struct" THEN
        IF e.k # "obj" THEN [st EXCEPT !.err = "AttributeError"]
        ELSE LET child == py_serialize(e.v)
             IN  IF child.err # "" THEN [st EXCEPT !.err = child.err]
                 ELSE LET p == serialize_py_varint(st.buf, PyInt(Len(child.buf)))
                      IN  [st EXCEPT !.err = p.err, !.buf = p.buf \o child.buf]
    ELSE IF m.kind = "str" THEN
        IF e.k # "str" THEN [st EXCEPT !.err = "TypeError"]
        ELSE LET p == serialize_py_varint(st.buf, PyInt(Len(e.v)))
             IN  [st EXCEPT !.err = p.err, !.buf = p.buf \o utf8(e.v)]
    ELSE IF e.k \notin {"int", "bool", "enum"} THEN [st EXCEPT !.err = "AttributeError"]
    ELSE IF m.kind = "bool" THEN
        [st EXCEPT !.buf = @ \o uintN(PyInt(IF e.v # 0 THEN 1 ELSE 0), 1).bytes]
    ELSE LET p == uintN(PyInt(e.v), m.width)
         IN  [st EXCEPT !.err = p.err, !.buf = @ \o p.bytes]

\* for i in range(field_length), from i on; st.data is the packed booleans
py_elements(m, xs, i, n, st) ==
    IF i >= n \/ st.err # "" THEN st
    ELSE IF i >= Len(xs) THEN [st EXCEPT !.err = "IndexError"]
    ELSE IF m.kind = "bool"
    THEN py_elements(m, xs, i + 1, n,
            IF xs[i + 1].v # 0
            THEN [st EXCEPT !.data[(i \div 8) + 1] = OrBit(@, py_bit(i))]
            ELSE st)
    ELSE py_elements(m, xs, i + 1, n, py_value(m, xs[i + 1], st))

\* generate_python_serialize: the payload of a present member
py_member(m, slot, st) ==
    IF ~m.vector THEN py_value(m, slot, st)
    ELSE LET n == IF m.vsize = -1 THEN Len(slot.v) ELSE m.vsize
             p == IF m.vsize = -1
                  THEN serialize_py_varint(st.buf, PyInt(n))
                  ELSE [err |-> "", buf |-> st.buf]
             s0 == [err |-> p.err, buf |-> p.buf,
                    data |-> IF m.kind = "bool" THEN Zeros(((n - 1) \div 8) + 1)
                             ELSE <<>>]
             s1 == py_elements(m, slot.v, 0, n, s0)
         IN  [err |-> s1.err, buf |-> s1.buf \o s1.data, data |-> <<>>]

\* the members of serialize, from member f on
py_members(d, slots, f, bitfield_index, st) ==
    IF f > NMembers(d) \/ st.err # "" THEN st
    ELSE LET m == Members(d)[f]
         IN  IF Unbounded(m) /\ slots[f].k # "list"
             THEN [st EXCEPT !.err = "TypeError"]
             ELSE IF ~py_present(m, slots[f])
             THEN py_members(d, slots, f + 1, bitfield_index, st)
             ELSE py_members(d, slots, f + 1, bitfield_index,
                    py_member(m, slots[f],
                      [st EXCEPT !.buf[bitfield_index + (field_id(f) \div 8) + 1] =
                                    OrBit(@, py_bit(field_id(f)))]))

\* def serialize(self) of the class of o
py_serialize(o) ==
    LET head == py_table_id_bytes(table_id(o.d))
        st == py_members(o.d, o.f, 1, Len(head),
                [err |-> "", data |-> <<>>,
                 buf |-> head \o Zeros(bitfield_byte_width(o.d))])
    IN  [err |-> st.err, buf |-> IF st.err = "" THEN st.buf ELSE <<>>]

\* generate_python_deserialize emits nothing for a member
py_deserialize_member(m, table) == table

\* def deserialize(cls, buf)
py_deserialize(d, buf) ==
    LET t == deserialize_py_varint(buf, 0)
    IN  IF t.err # "" THEN [err |-> t.err, table |-> None_]
        ELSE IF t.val # PyInt(table_id(d))
        THEN [err |-> "ValueError", table |-> None_]
        ELSE [err |-> "", table |-> O(d, py_new(d))]

(***************************************************************************)
(* The native serialize of the same value.  The instance is the one the    *)
(* T_set_* calls build from the value: a member is present when it was     *)
(* set, an integer is stored in its C type.  mem is what the function      *)
(* writes from offset 0 on, size the value of its variable buffer_size,    *)
(* alloc the bytes it has allocated, and ub records undefined behaviour: a *)
(* write past alloc or a read of the uninitialized child_buffer_size.      *)
(***************************************************************************)
\* the two's complement of a negative integer in w bytes
RECURSIVE Inc(_)
Inc(d) ==
    IF d = <<>> THEN <<>>
    ELSE IF Head(d) = 255 THEN <<0>> \o Inc(Tail(d))
    ELSE <<Head(d) + 1>> \o Tail(d)

TwosComplement(x, w) ==
    IF x.neg THEN Inc([i \in 1..w |-> 255 - Pad(x.mag, w)[i]]) ELSE Pad(x.mag, w)

\* a value the C type of the member can hold
c_fits(m, e) ==
    IF m.kind = "struct" THEN e.k = "obj"
    ELSE IF m.kind = "str" THEN e.k = "str"
    ELSE IF m.kind = "bool" THEN e.k = "bool"
    ELSE /\ e.k \in {"int", "enum"}
         /\ IF m.signed
            THEN e.v >= 0 - (2 ^ (8 * m.width - 1)) /\ e.v < 2 ^ (8 * m.width - 1)
            ELSE e.v >= 0 /\ Len(FromInt(e.v)) <= m.width

\* bytes appended at bytes_written
c_write(st, bytes) ==
    [st EXCEPT !.body = @ \o bytes,
               !.ub = @ \/ 4 + Len(st.body) + Len(bytes) > st.alloc]

Prefix(s, n) == SubSeq(Pad(s, n), 1, n)

RECURSIVE c_serialize(_, _, _), c_members(_, _, _, _, _), c_elements(_, _, _, _, _, _)

\* {type_name}_serialize(child, &child_buffer, &buffer_size), then the memcpy
\* of child_buffer_size bytes; prefixed is TRUE for a vector element
c_child(e, st, le, garbage, prefixed) ==
    LET child == c_serialize(e.v, le, garbage)
        s1 == [st EXCEPT !.size = child.size, !.ub = TRUE]
        s2 == IF prefixed
              THEN c_write(s1, serialize_c_varint(FromInt(garbage), le))
              ELSE s1
    IN  c_write(s2, Prefix(child.mem, garbage))

\* the body of "for (size_t i = 0; i < {length}; i++)", from i on
c_elements(m, xs, i, n, st, env) ==
    IF i >= n THEN st
    ELSE c_elements(m, xs, i + 1, n,
           IF m.kind = "struct" THEN c_child(xs[i + 1], st, env.le, env.garbage, TRUE)
           ELSE IF m.kind = "str" THEN
               c_write(c_write(st, serialize_c_varint(FromInt(Len(utf8(xs[i + 1].v))), env.le)),
                       utf8(xs[i + 1].v))
           ELSE IF m.kind = "bool" THEN
               \* (buffer + bytes_written + i / 8)[0] |= 1 << (7 - (i & 7))
               [st EXCEPT !.data[(i \div 8) + 1] = OrBit(@, 7 - (i % 8))]
           ELSE c_write(st, IF env.le THEN TwosComplement(PyInt(xs[i + 1].v), m.width)
                            ELSE Reverse(TwosComplement(PyInt(xs[i + 1].v), m.width))),
           env)

\* generate_c_serialize: the lines of one present member
c_member(m, f, slot, st, env) ==
    LET tag(flag) == c_store(FromInt(field_id(f) + (IF flag THEN 32768 ELSE 0)), 2, env.le)
    IN  IF m.vector THEN
            LET n == IF m.vsize = -1 THEN Len(slot.v) ELSE m.vsize
                s0 == IF m.vsize # -1 THEN c_write(st, tag(FALSE))
                      ELSE IF n > 255
                      THEN c_write(c_write(st, tag(TRUE)), c_store(FromInt(n), 4, env.le))
                      ELSE c_write(c_write(st, tag(FALSE)), c_store(FromInt(n), 1, env.le))
                \* size_t byte_count = (({length} - 1) / 8) + 1, n > 0 here
                byte_count == ((n - 1) \div 8) + 1
                s1 == IF m.kind = "bool"
                      THEN [s0 EXCEPT !.data = Zeros(byte_count),
                                      !.ub = @ \/ 4 + Len(s0.body) + byte_count > s0.alloc]
                      ELSE s0
                s2 == c_elements(m, slot.v, 0, n, s1, env)
            IN  [s2 EXCEPT !.body = @ \o s2.data, !.data = <<>>]
        ELSE IF m.kind = "struct" THEN
            c_child(slot, c_write(st, tag(FALSE)), env.le, env.garbage, FALSE)
        ELSE IF m.kind = "str" THEN
            LET string_size == Len(utf8(slot.v))
                grown == [st EXCEPT
                            !.size = @ + 2 + (IF string_size > 255 THEN 4 ELSE 1) + string_size,
                            !.alloc = st.size + 2 + (IF string_size > 255 THEN 4 ELSE 1)
                                        + string_size]
            IN  c_write(c_write(c_write(grown, tag(string_size > 255)),
                                c_store(FromInt(string_size),
                                        IF string_size > 255 THEN 4 ELSE 1, env.le)),
                        utf8(slot.v))
        ELSE IF m.kind = "bool" THEN c_write(st, tag(slot.v # 0))
        ELSE c_write(c_write(st, tag(FALSE)),
                     IF env.le THEN TwosComplement(PyInt(slot.v), m.width)
                     ELSE Reverse(TwosComplement(PyInt(slot.v), m.width)))

\* the members of {name}_serialize, from member f on
c_members(d, slots, f, st, env) ==
    IF f > NMembers(d) THEN st
    ELSE IF ~py_present(Members(d)[f], slots[f])
    THEN c_members(d, slots, f + 1, st, env)
    ELSE c_members(d, slots, f + 1,
           c_member(Members(d)[f], f, slots[f], [st EXCEPT !.count = @ + 1], env),
           env)

\* TABLE_TYPE_{name} as generate_c_header numbers it
TABLE_TYPE(d) == table_id(d)

\* bool {name}_serialize({name}_t *s, uint8_t **out_buffer, size_t *out_buffer_size)
c_serialize(o, le, garbage) ==
    LET st == c_members(o.d, o.f, 1,
                [body |-> <<>>, data |-> <<>>, count |-> 0, size |-> 4, alloc |-> 4,
                 ub |-> FALSE],
                [le |-> le, garbage |-> garbage])
    IN  [mem |-> c_store(FromInt(TABLE_TYPE(o.d) % 65536), 2, le)
                 \o c_store(FromInt(st.count), 2, le) \o st.body,
         size |-> st.size, alloc |-> st.alloc, ub |-> st.ub]

RECURSIVE c_representable(_)
c_representable(o) ==
    \A f \in 1..NMembers(o.d) :
        LET m == Members(o.d)[f]
            slot == o.f[f]
        IN  \/ ~py_present(m, slot)
            \/ /\ m.vector
               /\ slot.k = "list"
               /\ m.vsize \in {-1, Len(slot.v)}
               /\ \A i \in 1..Len(slot.v) :
                    /\ c_fits(m, slot.v[i])
                    /\ m.kind = "struct" => c_representable(slot.v[i].v)
            \/ /\ ~m.vector
               /\ c_fits(m, slot)
               /\ m.kind = "struct" => c_representable(slot.v)

(***************************************************************************)
(* The native heap.  A block is free, a {name}_t ("struct": the presence   *)
(* bits p and the storage slots f), a NUL-terminated string ("str": its    *)
(* characters f) or an array ("arr": its elements f).  A slot holds an     *)
(* integer, the address of a string or of a {name}_t, the elements of a    *)
(* fixed-size vector, or the address and length of an unbounded one.       *)
(* Address 0 is NULL.  bad records a free or a read of a block that is not *)
(* allocated.                                                              *)
(***************************************************************************)
MaxAddr == 9

Addrs == 1..MaxAddr

FreeBlock == [kind |-> "free", d |-> 0, p |-> <<>>, f |-> <<>>]

EmptyHeap == [m |-> [a \in Addrs |-> FreeBlock], bad |-> FALSE]

\* malloc / calloc / strdup: NULL once the allocator refuses (fuel = 0) or no
\* address is left
c_malloc(h, fuel, block) ==
    LET free == {a \in Addrs : h.m[a].kind = "free"}
    IN  IF fuel = 0 \/ free = {}
        THEN [h |-> h, fuel |-> 0, p |-> 0]
        ELSE LET a == CHOOSE a \in free : \A b \in free : a <= b
             IN  [h |-> [h EXCEPT !.m[a] = block], fuel |-> fuel - 1, p |-> a]

\* free(p)
c_release(h, a) ==
    IF a = 0 THEN h
    ELSE IF h.m[a].kind = "free" THEN [h EXCEPT !.bad = TRUE]
    ELSE [h EXCEPT !.m[a] = FreeBlock]

\* the zeroed storage of a member
c_zero(m) ==
    IF ~m.vector THEN 0
    ELSE IF m.vsize = -1 THEN [arr |-> 0, len |-> 0]
    ELSE Zeros(m.vsize)

\* {name}_new: calloc(1, sizeof({name}_t))
c_new(h, fuel, d) ==
    c_malloc(h, fuel,
             [kind |-> "struct", d |-> d,
              p |-> [f \in 1..NMembers(d) |-> FALSE],
              f |-> [f \in 1..NMembers(d) |-> c_zero(Members(d)[f])]])

\* s->{name}[0 .. length - 1] of a vector member
c_elems(h, s, f) ==
    LET m == Members(h.m[s].d)[f]
        slot == h.m[s].f[f]
    IN  IF m.vsize # -1 THEN slot
        ELSE IF slot.arr = 0 \/ h.m[slot.arr].kind # "arr" THEN <<>>
        ELSE SubSeq(h.m[slot.arr].f, 1, slot.len)

\* a generate_free that would clear the presence bit and release nothing
c_forget(h, s, f) == [h EXCEPT !.m[s].p[f] = FALSE]

\* Below, the result of a call is bound to a name by drawing it from the
\* singleton set that holds it ("h1 \in {F(h)}"): the call is then evaluated
\* once, however often the statements that follow read its result.
RECURSIVE c_free(_, _), c_free_each(_, _, _), c_generate_free(_, _, _),
          c_free_members(_, _, _)

\* free(x[i]) or {type_name}_free(x[i]) for every i
c_free_each(h, kind, xs) ==
    IF xs = <<>> THEN h
    ELSE CHOOSE out \in
           { c_free_each(h1, kind, Tail(xs)) :
               h1 \in {IF kind = "str" THEN c_release(h, Head(xs))
                       ELSE c_free(h, Head(xs))} } : TRUE

\* generate_free: the lines that release member f of *s
c_generate_free(h, s, f) ==
    LET m == Members(h.m[s].d)[f]
        h1 == [h EXCEPT !.m[s].p[f] = FALSE]
    IN  IF m.kind \notin {"str", "struct"} /\ ~m.vector THEN h
        ELSE IF ~h.m[s].p[f] THEN h
        ELSE IF m.vector THEN
            CHOOSE out \in
              { IF m.vsize = -1 THEN c_release(h2, h.m[s].f[f].arr) ELSE h2 :
                  h2 \in {IF m.kind \in {"str", "struct"}
                          THEN c_free_each(h1, m.kind, c_elems(h, s, f))
                          ELSE h1} } : TRUE
        ELSE IF m.kind = "str" THEN c_release(h1, h.m[s].f[f])
        ELSE c_free(h1, h.m[s].f[f])

c_free_members(h, s, f) ==
    IF f > NMembers(h.m[s].d) THEN h
    ELSE CHOOSE out \in
           { c_free_members(h1, s, f + 1) : h1 \in {c_generate_free(h, s, f)} } : TRUE

\* {name}_free(s)
c_free(h, s) ==
    IF s = 0 \/ h.m[s].kind # "struct" THEN [h EXCEPT !.bad = TRUE]
    ELSE CHOOSE out \in { c_release(h1, s) : h1 \in {c_free_members(h, s, 1)} } : TRUE

\* An argument of a setter: an integer ("imm"), the characters of a string of
\* the caller ("lit"), the address of a heap block ("ptr"), or the elements of
\* an array ("vec"), each an argument in turn.
Imm(n) == [t |-> "imm", v |-> n]
Lit(cs) == [t |-> "lit", v |-> cs]
Ptr(a) == [t |-> "ptr", v |-> a]
Vec(xs) == [t |-> "vec", v |-> xs]

\* s->{name}[i] = v
c_put(h, s, f, i, v) ==
    IF Members(h.m[s].d)[f].vsize = -1
    THEN [h EXCEPT !.m[h.m[s].f[f].arr].f[i] = v]
    ELSE [h EXCEPT !.m[s].f[f][i] = v]

\* strdup(x)
c_strdup(h, fuel, x) ==
    IF x.t = "lit" THEN c_malloc(h, fuel, [kind |-> "str", d |-> 0, p |-> <<>>, f |-> x.v])
    ELSE IF x.v = 0 \/ h.m[x.v].kind # "str"
    THEN [h |-> [h EXCEPT !.bad = TRUE], fuel |-> fuel, p |-> 0]
    ELSE c_malloc(h, fuel, h.m[x.v])

RECURSIVE c_copy(_, _, _), c_copy_sets(_, _, _, _, _), c_set(_, _, _, _, _),
          c_set_each(_, _, _, _, _, _)

\* a setter that would store the pointer it is handed instead of a copy
c_dup_shallow(h, fuel, kind, x) ==
    IF x.t = "ptr" THEN [h |-> h, fuel |-> fuel, p |-> x.v]
    ELSE c_strdup(h, fuel, x)

\* the deep copy a setter makes of a string or of a {type_name}_t
c_dup(h, fuel, kind, x) ==
    IF kind = "str" THEN c_strdup(h, fuel, x) ELSE c_copy(h, fuel, x.v)

\* the strdup / {type_name}_copy loop of a vector setter, from element i on;
\* on a NULL it releases the elements before i and returns false
c_set_each(h, fuel, s, f, xs, i) ==
    IF i > Len(xs) THEN [h |-> h, fuel |-> fuel, ok |-> TRUE]
    ELSE LET kind == Members(h.m[s].d)[f].kind
         IN  CHOOSE out \in
               { IF r.p = 0
                 THEN [h |-> c_free_each(c_put(r.h, s, f, i, r.p), kind,
                                         SubSeq(c_elems(r.h, s, f), 1, i - 1)),
                       fuel |-> r.fuel, ok |-> FALSE]
                 ELSE CHOOSE next \in
                        { c_set_each(h1, r.fuel, s, f, xs, i + 1) :
                            h1 \in {c_put(r.h, s, f, i, r.p)} } : TRUE
                 : r \in {c_dup(h, fuel, kind, xs[i])} } : TRUE

\* the allocation of s->{name} in the setter of an unbounded vector, after
\* generate_free; a fixed-size vector is stored in the {parent_name}_t itself
c_set_alloc(h, fuel, s, f, n) ==
    IF Members(h.m[s].d)[f].vsize # -1 THEN [h |-> h, fuel |-> fuel, p |-> 0]
    ELSE CHOOSE out \in
           { [h |-> [a.h EXCEPT !.m[s].f[f] = [arr |-> a.p, len |-> n]],
              fuel |-> a.fuel, p |-> a.p] :
               a \in {c_malloc(h, fuel, [kind |-> "arr", d |-> 0, p |-> <<>>,
                                         f |-> Zeros(n)])} } : TRUE

\* bool {parent_name}_set_{name}(s, value [, length])
c_set(h, fuel, s, f, x) ==
    LET m == Members(h.m[s].d)[f]
        present(r) == [h |-> [r.h EXCEPT !.m[s].p[f] = TRUE], fuel |-> r.fuel, ok |-> TRUE]
        failed(r) == [h |-> r.h, fuel |-> r.fuel, ok |-> FALSE]
    IN  IF m.vector THEN
            CHOOSE out \in
              { IF m.vsize = -1 /\ a.p = 0 THEN failed(a)
                ELSE IF m.kind \in {"str", "struct"} THEN
                    CHOOSE res \in
                      { IF r.ok THEN present(r) ELSE failed(r) :
                          r \in {c_set_each(a.h, a.fuel, s, f, x.v, 1)} } : TRUE
                ELSE
                    \* memcpy(s->{name}, {name}, sizeof(*{name}) * {length})
                    present([h |-> IF m.vsize = -1
                                   THEN [a.h EXCEPT !.m[a.p].f =
                                           [i \in 1..Len(x.v) |-> x.v[i].v]]
                                   ELSE [a.h EXCEPT !.m[s].f[f] =
                                           [i \in 1..Len(x.v) |-> x.v[i].v]],
                             fuel |-> a.fuel])
                : a \in { CHOOSE al \in
                            { c_set_alloc(h1, fuel, s, f, Len(x.v)) :
                                h1 \in {c_generate_free(h, s, f)} } : TRUE } } : TRUE
        ELSE IF m.kind \in {"str", "struct"} THEN
            CHOOSE out \in
              { IF r.p = 0
                THEN failed([h |-> [r.h EXCEPT !.m[s].f[f] = r.p], fuel |-> r.fuel])
                ELSE present([h |-> [r.h EXCEPT !.m[s].f[f] = r.p], fuel |-> r.fuel])
                : r \in { CHOOSE d \in
                            { c_dup(h1, fuel, m.kind, x) :
                                h1 \in {c_generate_free(h, s, f)} } : TRUE } } : TRUE
        ELSE present([h |-> [h EXCEPT !.m[s].f[f] = x.v], fuel |-> fuel])

\* the value generate_copy_sets hands to the setter: s->{name}
c_member_arg(h, s, f) ==
    LET m == Members(h.m[s].d)[f]
        one(v) == IF m.kind \in {"str", "struct"} THEN Ptr(v) ELSE Imm(v)
    IN  IF m.vector
        THEN Vec([i \in 1..Len(c_elems(h, s, f)) |-> one(c_elems(h, s, f)[i])])
        ELSE one(h.m[s].f[f])

\* generate_copy_sets for the members from f on; new_s is freed on a failure
c_copy_sets(h, fuel, s, new_s, f) ==
    IF f > NMembers(h.m[s].d) THEN [h |-> h, fuel |-> fuel, p |-> new_s]
    ELSE IF ~h.m[s].p[f] THEN c_copy_sets(h, fuel, s, new_s, f + 1)
    ELSE CHOOSE out \in
           { IF ~r.ok THEN [h |-> c_free(r.h, new_s), fuel |-> r.fuel, p |-> 0]
             ELSE c_copy_sets(r.h, r.fuel, s, new_s, f + 1)
             : r \in {c_set(h, fuel, new_s, f, c_member_arg(h, s, f))} } : TRUE

\* {name}_t *{name}_copy({name}_t *s)
c_copy(h, fuel, s) ==
    IF s = 0 \/ h.m[s].kind # "struct"
    THEN [h |-> [h EXCEPT !.bad = TRUE], fuel |-> fuel, p |-> 0]
    ELSE CHOOSE out \in
           { IF n.p = 0 THEN n ELSE c_copy_sets(n.h, n.fuel, s, n.p, 1)
             : n \in {c_new(h, fuel, h.m[s].d)} } : TRUE

\* a pointer made of an integer, and the address of the array inside *s
IntPtr(n) == [t |-> "intptr", v |-> n]
Inline(s, f) == [t |-> "inline", v |-> <<s, f>>]

\* bool {parent_name}_get_{name}(s, &value [, &length]): what it returns and
\* what it stores through value and length
c_get(h, s, f) ==
    LET m == Members(h.m[s].d)[f]
        slot == h.m[s].f[f]
        pointer == m.vector \/ m.kind \in {"str", "struct"}
    IN  IF h.m[s].p[f] THEN
            [ok |-> TRUE, wrote |-> TRUE,
             value |-> IF m.vector /\ m.vsize # -1 THEN Inline(s, f)
                       ELSE IF m.vector THEN Ptr(slot.arr)
                       ELSE IF pointer THEN Ptr(slot)
                       ELSE Imm(slot),
             wrote_length |-> m.vector /\ m.vsize = -1,
             length |-> IF m.vector /\ m.vsize = -1 THEN slot.len ELSE 0]
        ELSE IF m.dflt.k = "str" THEN
            \* *{name} = (char *)"{default}";
            [ok |-> TRUE, wrote |-> TRUE, value |-> Lit(m.dflt.v),
             wrote_length |-> FALSE, length |-> 0]
        ELSE IF m.dflt.k # "none" THEN
            \* *{name} = {default};
            [ok |-> TRUE, wrote |-> TRUE,
             value |-> IF pointer THEN IntPtr(m.dflt.v) ELSE Imm(m.dflt.v),
             wrote_length |-> FALSE, length |-> 0]
        ELSE [ok |-> FALSE, wrote |-> FALSE, value |-> Imm(0),
              wrote_length |-> FALSE, length |-> 0]

\* the blocks an instance owns: itself and what its present members point to
RECURSIVE c_blocks(_, _)
c_blocks(h, s) ==
    IF s = 0 \/ h.m[s].kind # "struct" THEN {s}
    ELSE {s} \cup UNION {
           LET m == Members(h.m[s].d)[f]
               own(v) == IF m.kind = "struct" THEN c_blocks(h, v) ELSE {v}
           IN  IF ~h.m[s].p[f] \/ (m.kind \notin {"str", "struct"} /\ ~Unbounded(m))
               THEN {}
               ELSE IF m.vector
               THEN (IF m.vsize = -1 THEN {h.m[s].f[f].arr} ELSE {})
                    \cup (IF m.kind \in {"str", "struct"}
                          THEN UNION {own(c_elems(h, s, f)[i]) :
                                        i \in 1..Len(c_elems(h, s, f))}
                          ELSE {})
               ELSE own(h.m[s].f[f])
           : f \in 1..NMembers(h.m[s].d) }

\* the value an instance holds, as its getters and serialize would read it
RECURSIVE c_value(_, _)
c_value(h, s) ==
    IF s = 0 \/ h.m[s].kind # "struct" THEN <<"dangling">>
    ELSE [f \in 1..NMembers(h.m[s].d) |->
            LET m == Members(h.m[s].d)[f]
                one(v) == IF m.kind = "struct" THEN c_value(h, v)
                          ELSE IF m.kind = "str"
                          THEN (IF v = 0 \/ h.m[v].kind # "str" THEN <<"dangling">>
                                ELSE <<"str", h.m[v].f>>)
                          ELSE <<"int", v>>
            IN  IF ~h.m[s].p[f] THEN <<"absent">>
                ELSE IF m.vector
                THEN IF m.vsize = -1 /\ (h.m[s].f[f].arr = 0
                                          \/ h.m[h.m[s].f[f].arr].kind # "arr")
                     THEN <<"dangling">>
                     ELSE <<"vec", [i \in 1..Len(c_elems(h, s, f)) |->
                                      one(c_elems(h, s, f)[i])]>>
                ELSE one(h.m[s].f[f])]

InnerClass == 2

\* the values a caller passes for a member that holds no {type_name}_t
c_args(m) ==
    IF m.kind = "str" THEN
        IF ~m.vector THEN {Lit(<<97>>), Lit(<<233, 97>>)}
        ELSE {x \in {Vec(<<>>), Vec(<<Lit(<<97>>)>>), Vec(<<Lit(<<>>), Lit(<<233, 97>>)>>)} :
                m.vsize \in {-1, Len(x.v)}}
    ELSE IF ~m.vector THEN {Imm(1)}
    ELSE IF m.vsize = -1 THEN {Vec(<<Imm(1)>>)}
    ELSE {Vec([i \in 1..m.vsize |-> Imm(i)])}

\* ... and for one that does: the caller's Inner_t*, or arrays of it
c_struct_args(m, p) ==
    IF ~m.vector THEN {Ptr(p)}
    ELSE {x \in {Vec(<<>>), Vec(<<Ptr(p)>>), Vec(<<Ptr(p), Ptr(p)>>)} :
            m.vsize \in {-1, Len(x.v)}}

\* the values a caller can pass for member m, p being its Inner_t*
c_call_args(m, p) ==
    IF m.kind # "struct" THEN c_args(m)
    ELSE IF p = 0 THEN {}
    ELSE c_struct_args(m, p)

\* what a getter stored through its out-parameters: nothing yet
NoOut == [wrote |-> FALSE, value |-> Imm(0), wrote_length |-> FALSE, length |-> 0]

\* a call op on roots[r] and what it returned; for a setter or a getter, the
\* member f it names and whether f was present when it was called; for a
\* getter, what it stored through its out-parameters
Call(op, r, ok, f, had) ==
    [op |-> op, r |-> r, ok |-> ok, f |-> f, had |-> had, out |-> NoOut]

NoCall == Call("none", 0, TRUE, 0, FALSE)

CIdle ==
    /\ heap = EmptyHeap
    /\ roots = <<0, 0, 0>>
    /\ cd = InnerClass
    /\ clast = NoCall
    /\ ncalls = 0

WireIdle ==
    /\ nbuf = <<>>
    /\ nver = "none"
    /\ ndes = "none"

CodecIdle ==
    /\ cop = "init"
    /\ cbuf = <<>>
    /\ cerr = ""
    /\ cval = PyInt(0)
    /\ cidx = 0

NoToken == [type |-> "", value |-> 0, err |-> ""]

LexIdle ==
    /\ text = <<>>
    /\ index = 0
    /\ tok = NoToken

NoError == [type |-> "", declaration |-> "", member |-> ""]

SchemaIdle ==
    /\ definitions = <<>>
    /\ next_table_id = 0
    /\ sphase = "idle"
    /\ serror = NoError
    /\ TableType_e = <<>>
    /\ written = <<>>
    /\ exit_status = -1

(***************************************************************************)
(* Spec: one instance of a generated class and the calls made on it.       *)
(***************************************************************************)
TableBases == {0, 251, 65533}

\* child_buffer_size is read before anything is stored in it
Garbage == {0, 3}

\* The native source of a schema with a [T:0] member does not compile
\* (T_copy passes s->z_length, a field the typedef does not declare), so the
\* native calls are those of the schema without table Zed.
NativeClasses == 1..(Len(Schema) - 1)

NoWire == [mem |-> <<>>, size |-> 0, alloc |-> 0, ub |-> FALSE, crashed |-> FALSE]

PyIdle ==
    /\ tbase = 0
    /\ cur = 1
    /\ obj = <<>>
    /\ pop = "none"
    /\ parg = [f |-> 0, value |-> None_]
    /\ pyerr = ""
    /\ wire = <<>>
    /\ back = None_
    /\ got = None_
    /\ cwire = NoWire

Init ==
    /\ tbase \in TableBases
    /\ cur \in 1..Len(Schema)
    /\ obj = py_new(cur)
    /\ pop = "new"
    /\ parg = [f |-> 0, value |-> None_]
    /\ pyerr = ""
    /\ wire = <<>>
    /\ back = None_
    /\ got = None_
    /\ cwire = NoWire
    /\ cx = PyInt(0)
    /\ cw = 1
    /\ hostLE \in BOOLEAN
    /\ CodecIdle
    /\ LexIdle
    /\ SchemaIdle
    /\ CIdle
    /\ WireIdle

\* instance.<field> = value
PySet(f, value) ==
    /\ LET r == py_setter(Members(cur)[f], value)
       IN  /\ obj' = IF r.set THEN [obj EXCEPT ![f] = r.v] ELSE obj
           /\ pyerr' = r.err
    /\ pop' = "set"
    /\ parg' = [f |-> f, value |-> value]
    /\ wire' = <<>>
    /\ back' = None_
    /\ got' = None_
    /\ cwire' = NoWire
    /\ UNCHANGED <<tbase, cur, codecVars, cVars, schemaVars, lexVars>>

\* instance.<field>
PyGet(f) ==
    /\ got' = py_getter(Members(cur)[f], obj[f])
    /\ pop' = "get"
    /\ parg' = [f |-> f, value |-> None_]
    /\ pyerr' = ""
    /\ wire' = <<>>
    /\ back' = None_
    /\ cwire' = NoWire
    /\ UNCHANGED <<tbase, cur, obj, codecVars, cVars, schemaVars, lexVars>>

\* repr(instance)
PyRepr ==
    /\ pop # "repr"
    /\ LET r == py_repr(cur, obj)
       IN  got' = [k |-> "repr", v |-> r.v] /\ pyerr' = r.err
    /\ pop' = "repr"
    /\ parg' = [f |-> 0, value |-> None_]
    /\ wire' = <<>>
    /\ back' = None_
    /\ cwire' = NoWire
    /\ UNCHANGED <<tbase, cur, obj, codecVars, cVars, schemaVars, lexVars>>

\* instance.serialize()
PySerialize ==
    /\ pop # "serialize"
    /\ LET r == py_serialize([d |-> cur, f |-> obj])
       IN  wire' = r.buf /\ pyerr' = r.err
    /\ pop' = "serialize"
    /\ parg' = [f |-> 0, value |-> None_]
    /\ back' = None_
    /\ got' = None_
    /\ cwire' = NoWire
    /\ UNCHANGED <<tbase, cur, obj, codecVars, cVars, schemaVars, lexVars>>

\* Class.deserialize(instance.serialize())
PyDeserialize ==
    /\ pop = "serialize"
    /\ pyerr = ""
    /\ LET r == py_deserialize(cur, wire)
       IN  back' = r.table /\ pyerr' = r.err
    /\ pop' = "deserialize"
    /\ UNCHANGED <<tbase, cur, obj, parg, wire, got, cwire, codecVars, cVars, schemaVars, lexVars>>

\* {name}_serialize(s, &buffer, &buffer_size) on the native instance holding
\* the value that the Python instance has just serialized
NativeSerialize(garbage, crash) ==
    /\ pop = "serialize"
    /\ pyerr = ""
    /\ cur \in NativeClasses
    /\ c_representable([d |-> cur, f |-> obj])
    /\ LET r == c_serialize([d |-> cur, f |-> obj], hostLE, garbage)
       IN  /\ crash => r.ub
           /\ cwire' = [mem |-> r.mem, size |-> r.size, alloc |-> r.alloc,
                        ub |-> r.ub, crashed |-> crash]
    /\ pop' = "c_serialize"
    /\ UNCHANGED <<tbase, cur, obj, parg, pyerr, wire, back, got, codecVars, cVars, schemaVars, lexVars>>

Next ==
    \/ \E f \in 1..NMembers(cur) : \E i \in 1..Len(Members(cur)[f].dom) :
          PySet(f, Members(cur)[f].dom[i])
    \/ \E f \in 1..NMembers(cur) : PyGet(f)
    \/ PyRepr
    \/ PySerialize
    \/ PyDeserialize
    \/ \E garbage \in Garbage : \E crash \in BOOLEAN : NativeSerialize(garbage, crash)

Spec == Init /\ [][Next]_vars

(***************************************************************************)
(* SpecLex: SeriaLexer on a text of characters of LexAlphabet.  A text is  *)
(* a sequence of code points; the rules are tried in the order in which    *)
(* the class lists them, and within one rule the alternatives of its       *)
(* pattern are tried from left to right, the first that matches winning.   *)
(***************************************************************************)
ESCAPE_CODES ==
    [c \in {114, 110, 116, 118, 92, 39, 34} \cup (48..57) |->
        IF c = 114 THEN 13
        ELSE IF c = 110 THEN 10
        ELSE IF c = 116 THEN 9
        ELSE IF c = 118 THEN 11
        ELSE IF c \in 48..57 THEN c - 48
        ELSE c]

\* \d
Digits == 48..57

\* [0-9a-fA-F]
HexDigits == Digits \cup (65..70) \cup (97..102)

\* [a-zA-Z_.]
IdentifierStart == (65..90) \cup (97..122) \cup {95, 46}

\* the end (exclusive) of the longest run of characters of cls from i on
Run(cls, t, i) ==
    CHOOSE j \in i..(Len(t) + 1) :
        /\ \A k \in i..(j - 1) : t[k] \in cls
        /\ j = Len(t) + 1 \/ t[j] \notin cls

At(t, i) == IF i <= Len(t) THEN t[i] ELSE -1

\* the pattern of NUMBER_LITERAL matched at i: the end (exclusive) of the
\* match, 0 when no alternative matches
match_NUMBER_LITERAL(t, i) ==
    IF At(t, i) \in Digits                                     \* \d+
    THEN Run(Digits, t, i)
    ELSE IF At(t, i) = 48 /\ At(t, i + 1) = 120                \* 0x[0-9a-fA-F]+
            /\ At(t, i + 2) \in HexDigits
    THEN Run(HexDigits, t, i + 2)
    ELSE IF At(t, i) = 39 /\ At(t, i + 1) = 92                 \* '\\?[^']'
            /\ At(t, i + 2) \notin {39, -1} /\ At(t, i + 3) = 39
    THEN i + 4
    ELSE IF At(t, i) = 39 /\ At(t, i + 1) \notin {39, -1}
            /\ At(t, i + 2) = 39
    THEN i + 3
    ELSE IF At(t, i) = 39 /\ At(t, i + 1) = 92                 \* '\''
            /\ At(t, i + 2) = 39 /\ At(t, i + 3) = 39
    THEN i + 4
    ELSE 0

\* int(v), int(v, 16)
RECURSIVE int(_, _)
int(v, base) ==
    IF v = <<>> THEN 0
    ELSE LET c == v[Len(v)]
             d == IF c \in Digits THEN c - 48
                  ELSE IF c \in 65..70 THEN c - 55 ELSE c - 87
         IN  d + base * int(SubSeq(v, 1, Len(v) - 1), base)

\* def NUMBER_LITERAL(self, t), on the matched characters v
NUMBER_LITERAL(v) ==
    IF v[1] = 39 /\ v[Len(v)] = 39
    THEN IF v[2] = 92
         THEN IF v[3] \in DOMAIN ESCAPE_CODES
              THEN [type |-> "NUMBER_LITERAL", value |-> ESCAPE_CODES[v[3]], err |-> ""]
              ELSE [type |-> "", value |-> 0, err |-> "ValueError"]
         ELSE [type |-> "NUMBER_LITERAL", value |-> v[2], err |-> ""]
    ELSE IF Len(v) >= 2 /\ SubSeq(v, 1, 2) = <<48, 120>>
    THEN [type |-> "NUMBER_LITERAL", value |-> int(SubSeq(v, 3, Len(v)), 16), err |-> ""]
    ELSE [type |-> "NUMBER_LITERAL", value |-> int(v, 10), err |-> ""]

\* def IDENTIFIER(self, t): the words false, true, table, enum and struct,
\* in any case, are not identifiers.  An identifier keeps its text, which
\* the token of the model does not record.
IDENTIFIER(v) ==
    LET match_value == [k \in 1..Len(v) |-> IF v[k] \in 65..90 THEN v[k] + 32 ELSE v[k]]
    IN  IF match_value = <<102, 97, 108, 115, 101>>
        THEN [type |-> "NUMBER_LITERAL", value |-> 0, err |-> ""]
        ELSE IF match_value = <<116, 114, 117, 101>>
        THEN [type |-> "NUMBER_LITERAL", value |-> 1, err |-> ""]
        ELSE IF match_value = <<116, 97, 98, 108, 101>>
        THEN [type |-> "TABLE", value |-> 0, err |-> ""]
        ELSE IF match_value = <<101, 110, 117, 109>>
        THEN [type |-> "ENUM", value |-> 0, err |-> ""]
        ELSE IF match_value = <<115, 116, 114, 117, 99, 116>>
        THEN [type |-> "STRUCT", value |-> 0, err |-> ""]
        ELSE [type |-> "IDENTIFIER", value |-> 0, err |-> ""]

\* the token rules that are plain patterns
Punctuation ==
    [c \in {58, 59, 44, 61, 91, 93, 123, 125} |->
        IF c = 58 THEN "COLON"
        ELSE IF c = 59 THEN "SEMICOLON"
        ELSE IF c = 44 THEN "COMMA"
        ELSE IF c = 61 THEN "EQUALS"
        ELSE IF c = 91 THEN "OPEN_BRACKET"
        ELSE IF c = 93 THEN "CLOSE_BRACKET"
        ELSE IF c = 123 THEN "OPEN_BRACE"
        ELSE "CLOSE_BRACE"]

\* one token from the i-th character on: the token and the end (exclusive)
\* of its characters.  No rule matching is a LexError.
lex_token(t, i) ==
    IF At(t, i) \in IdentifierStart
    THEN LET j == Run(IdentifierStart \cup Digits, t, i)
         IN  [tok |-> IDENTIFIER(SubSeq(t, i, j - 1)), end |-> j]
    ELSE IF match_NUMBER_LITERAL(t, i) # 0
    THEN LET j == match_NUMBER_LITERAL(t, i)
         IN  [tok |-> NUMBER_LITERAL(SubSeq(t, i, j - 1)), end |-> j]
    ELSE IF At(t, i) \in DOMAIN Punctuation
    THEN [tok |-> [type |-> Punctuation[t[i]], value |-> 0, err |-> ""], end |-> i + 1]
    ELSE [tok |-> [type |-> "", value |-> 0, err |-> "LexError"], end |-> i]

\* 0 1 F n x ' \ ;
LexAlphabet == {48, 49, 70, 110, 120, 39, 92, 59}

MaxText == 4

RECURSIVE Texts(_)
Texts(n) ==
    IF n = 0 THEN {<<>>}
    ELSE Texts(n - 1) \cup {Append(t, c) : t \in Texts(n - 1), c \in LexAlphabet}

InitLex ==
    /\ text \in Texts(MaxText) \ {<<>>}
    /\ index = 0
    /\ tok = NoToken
    /\ cx = PyInt(0)
    /\ cw = 1
    /\ hostLE = TRUE
    /\ CodecIdle
    /\ SchemaIdle
    /\ PyIdle
    /\ CIdle
    /\ WireIdle

\* the next token of lexer.tokenize(text)
LexToken ==
    /\ index < Len(text)
    /\ tok.err = ""
    /\ LET r == lex_token(text, index + 1)
       IN  /\ tok' = r.tok
           /\ index' = r.end - 1
    /\ UNCHANGED <<text, codecVars, pyVars, cVars, schemaVars>>

NextLex == LexToken

SpecLex == InitLex /\ [][NextLex]_vars

(***************************************************************************)
(* SpecCodec: the helpers applied to drawn inputs.                         *)
(***************************************************************************)
CodecMagnitudes ==
    { <<>>, <<1>>, <<252>>, <<253>>, <<254>>, <<255>>, <<0, 1>>, <<2, 1>>,
      <<255, 255>>, <<0, 0, 1>>, <<3, 2, 1>>, <<4, 3, 2, 1>>,
      <<255, 255, 255, 255>>, <<0, 0, 0, 0, 1>>, <<5, 4, 3, 2, 1>>,
      <<8, 7, 6, 5, 4, 3, 2, 1>>,
      <<255, 255, 255, 255, 255, 255, 255, 255>> }

Widths == {1, 2, 4, 8}

InitCodec ==
    /\ cx \in [neg : {FALSE}, mag : CodecMagnitudes]
    /\ cw \in Widths
    /\ hostLE \in BOOLEAN
    /\ CodecIdle
    /\ LexIdle
    /\ SchemaIdle
    /\ PyIdle
    /\ CIdle
    /\ WireIdle

\* buf = bytearray(); <serialize_py_varint(cx)>
PyVarintEncode ==
    /\ cop = "init"
    /\ LET r == serialize_py_varint(<<>>, cx)
       IN  cbuf' = r.buf /\ cerr' = r.err
    /\ cop' = "py_varint"
    /\ UNCHANGED <<cx, cw, hostLE, cval, cidx, pyVars, cVars, schemaVars, lexVars>>

\* buf_index = 0; <deserialize_py_varint> on the bytes the encoder returned
PyVarintDecode ==
    /\ cop = "py_varint"
    /\ cerr = ""
    /\ LET r == deserialize_py_varint(cbuf, 0)
       IN  cval' = r.val /\ cidx' = r.idx /\ cerr' = r.err
    /\ cop' = "py_unvarint"
    /\ UNCHANGED <<cx, cw, hostLE, cbuf, pyVars, cVars, schemaVars, lexVars>>

\* uint8(cx) .. uint64(cx)
PyUIntN ==
    /\ cop = "init"
    /\ LET r == uintN(cx, cw)
       IN  cbuf' = r.bytes /\ cerr' = r.err
    /\ cop' = "uintN"
    /\ UNCHANGED <<cx, cw, hostLE, cval, cidx, pyVars, cVars, schemaVars, lexVars>>

\* unsigned_int(buf) on the bytes uintN returned
PyUnsignedInt ==
    /\ cop = "uintN"
    /\ cerr = ""
    /\ cval' = unsigned_int(cbuf)
    /\ cidx' = Len(cbuf)
    /\ cop' = "unsigned_int"
    /\ UNCHANGED <<cx, cw, hostLE, cbuf, cerr, pyVars, cVars, schemaVars, lexVars>>

\* bytes_written = 0; <serialize_c_varint(cx)>
CVarintEncode ==
    /\ cop = "init"
    /\ cbuf' = serialize_c_varint(cx.mag, hostLE)
    /\ cop' = "c_varint"
    /\ UNCHANGED <<cx, cw, hostLE, cerr, cval, cidx, pyVars, cVars, schemaVars, lexVars>>

\* bytes_read = 0; <deserialize_c_varint> on the bytes the C encoder wrote
CVarintDecode ==
    /\ cop = "c_varint"
    /\ LET r == deserialize_c_varint(cbuf, 0)
       IN  /\ cval' = [neg |-> FALSE, mag |-> r.val]
           /\ cidx' = r.bytes_read
           /\ cerr' = IF r.ok THEN "" ELSE "ERROR"
    /\ cop' = "c_unvarint"
    /\ UNCHANGED <<cx, cw, hostLE, cbuf, pyVars, cVars, schemaVars, lexVars>>

\* ((c_type*)(buffer + bytes_written))[0] = s->field, for a cw-byte c_type
CIntWrite ==
    /\ cop = "init"
    /\ Len(cx.mag) <= cw
    /\ cbuf' = c_store(cx.mag, cw, hostLE)
    /\ cop' = "c_int"
    /\ UNCHANGED <<cx, cw, hostLE, cerr, cval, cidx, pyVars, cVars, schemaVars, lexVars>>

\* bytes_read = 0; <deserialize_c_int(cw)> on those bytes
CIntRead ==
    /\ cop = "c_int"
    /\ LET r == deserialize_c_int(cbuf, 0, cw)
       IN  /\ cval' = [neg |-> FALSE, mag |-> r.val]
           /\ cidx' = r.bytes_read
           /\ cerr' = IF r.ok THEN "" ELSE "ERROR"
    /\ cop' = "c_unint"
    /\ UNCHANGED <<cx, cw, hostLE, cbuf, pyVars, cVars, schemaVars, lexVars>>

NextCodec ==
    \/ PyVarintEncode
    \/ PyVarintDecode
    \/ PyUIntN
    \/ PyUnsignedInt
    \/ CVarintEncode
    \/ CVarintDecode
    \/ CIntWrite
    \/ CIntRead

SpecCodec == InitCodec /\ [][NextCodec]_vars

(***************************************************************************)
(* SpecC: native instances on the heap and the calls made on them.         *)
(* roots[1] is an Inner_t* of the caller, roots[2] a {cd}_t* and roots[3]  *)
(* the {cd}_t* that {cd}_copy(roots[2]) returned; 0 is NULL.               *)
(***************************************************************************)
CClasses == {3, 4, 5}

RootClass(r) == IF r = 1 THEN InnerClass ELSE cd

\* the length of a run of native calls
MaxCalls == 4

\* the allocations that succeed before the allocator first returns NULL
MaxFuel == 2

Fuels == 0..MaxFuel \cup {MaxAddr}

\* The caller has made roots[1] = Inner_new() and roots[2] = {cd}_new().
InitC ==
    /\ cd \in CClasses
    /\ LET a == c_new(EmptyHeap, MaxAddr, InnerClass)
           b == c_new(a.h, MaxAddr, cd)
       IN  heap = b.h /\ roots = <<a.p, b.p, 0>>
    /\ clast = NoCall
    /\ ncalls = 0
    /\ WireIdle
    /\ cx = PyInt(0)
    /\ cw = 1
    /\ hostLE = TRUE
    /\ CodecIdle
    /\ LexIdle
    /\ SchemaIdle
    /\ PyIdle

\* roots[r] = {name}_new()
CNew(r, fuel) ==
    /\ ncalls < MaxCalls
    /\ ncalls' = ncalls + 1
    /\ r \in {1, 2}
    /\ roots[r] = 0
    /\ \E a \in {c_new(heap, fuel, RootClass(r))} :
           /\ heap' = a.h
           /\ roots' = [roots EXCEPT ![r] = a.p]
           /\ clast' = Call("new", r, a.p # 0, 0, FALSE)
    /\ UNCHANGED <<cd, nbuf, nver, ndes, codecVars, pyVars, schemaVars, lexVars>>

\* {name}_set_{member}(roots[r], x [, length])
CSet(r, f, x, fuel) ==
    /\ ncalls < MaxCalls
    /\ ncalls' = ncalls + 1
    /\ r \in {1, 2}
    /\ roots[r] # 0
    /\ \E a \in {c_set(heap, fuel, roots[r], f, x)} :
           /\ heap' = a.h
           /\ clast' = Call("set", r, a.ok, f, heap.m[roots[r]].p[f])
    /\ UNCHANGED <<roots, cd, nbuf, nver, ndes, codecVars, pyVars, schemaVars, lexVars>>

\* roots[3] = {name}_copy(roots[2])
CCopy(fuel) ==
    /\ ncalls < MaxCalls
    /\ ncalls' = ncalls + 1
    /\ roots[2] # 0
    /\ roots[3] = 0
    /\ \E a \in {c_copy(heap, fuel, roots[2])} :
           /\ heap' = a.h
           /\ roots' = [roots EXCEPT ![3] = a.p]
           /\ clast' = Call("copy", 3, a.p # 0, 0, FALSE)
    /\ UNCHANGED <<cd, nbuf, nver, ndes, codecVars, pyVars, schemaVars, lexVars>>

\* {name}_get_{member}(roots[r], &value [, &length])
CGet(r, f) ==
    /\ ncalls < MaxCalls
    /\ ncalls' = ncalls + 1
    /\ r \in {1, 2}
    /\ roots[r] # 0
    /\ \E g \in {c_get(heap, roots[r], f)} :
           clast' = [Call("get", r, g.ok, f, heap.m[roots[r]].p[f]) EXCEPT
                       !.out = [wrote |-> g.wrote, value |-> g.value,
                                wrote_length |-> g.wrote_length, length |-> g.length]]
    /\ UNCHANGED <<heap, roots, cd, nbuf, nver, ndes, codecVars, pyVars, schemaVars, lexVars>>

\* {name}_free(roots[r]); roots[r] = NULL
CFree(r) ==
    /\ ncalls < MaxCalls
    /\ ncalls' = ncalls + 1
    /\ roots[r] # 0
    /\ heap' = c_free(heap, roots[r])
    /\ roots' = [roots EXCEPT ![r] = 0]
    /\ clast' = Call("free", r, TRUE, 0, FALSE)
    /\ UNCHANGED <<cd, nbuf, nver, ndes, codecVars, pyVars, schemaVars, lexVars>>

NextC ==
    \/ \E r \in 1..2 : \E fuel \in Fuels : CNew(r, fuel)
    \/ \E r \in 1..2 : \E f \in 1..NMembers(RootClass(r)) : \E fuel \in Fuels :
          \E x \in c_call_args(Members(RootClass(r))[f], roots[1]) : CSet(r, f, x, fuel)
    \/ \E r \in 1..2 : \E f \in 1..NMembers(RootClass(r)) : CGet(r, f)
    \/ \E fuel \in Fuels : CCopy(fuel)
    \/ \E r \in 1..3 : CFree(r)

SpecC == InitC /\ [][NextC]_vars

(***************************************************************************)
(* SpecWire: the native verify and deserialize of one class on one buffer. *)
(***************************************************************************)
\* a verify that would accept any well-formed varint
c_verify_any(d, buffer) == deserialize_c_varint(buffer, 0).ok

\* {name}_verify(buffer, buffer_size)
c_verify(d, buffer) ==
    LET r == deserialize_c_varint(buffer, 0)
    IN  IF ~r.ok THEN FALSE
        ELSE IF r.val # PyInt(table_id(d)).mag THEN FALSE
        ELSE TRUE

\* {name}_deserialize(buffer, buffer_size); every member is "// TODO"
c_deserialize(h, fuel, d, buffer) ==
    LET s == c_new(h, fuel, d)
        r == deserialize_c_varint(buffer, 0)
    IN  IF s.p = 0 THEN s
        ELSE IF ~r.ok \/ r.val # PyInt(table_id(d)).mag
        THEN [h |-> c_free(s.h, s.p), fuel |-> s.fuel, p |-> 0]
        ELSE s

\* a table id as a varint of either byte order, shortest or over-long
WireForms(mag) ==
    {serialize_c_varint(mag, le) : le \in BOOLEAN}
    \cup {<<253>> \o c_store(mag, 2, le) : le \in {l \in BOOLEAN : Len(mag) <= 2}}
    \cup {<<254>> \o c_store(mag, 4, le) : le \in {l \in BOOLEAN : Len(mag) <= 4}}

\* the buffers handed to verify and deserialize: the ids of this class and of
\* the next one, whole, followed by a byte, and cut short by a byte
WireBuffers(d) ==
    LET whole == UNION {WireForms(PyInt(id).mag) : id \in {table_id(d), table_id(d) + 1}}
    IN  {<<>>} \cup whole \cup {b \o <<0>> : b \in whole}
        \cup {SubSeq(b, 1, Len(b) - 1) : b \in whole}

InitWire ==
    /\ tbase \in TableBases
    /\ cur \in NativeClasses
    /\ hostLE \in BOOLEAN
    /\ nbuf \in WireBuffers(cur)
    /\ nver = "none"
    /\ ndes = "none"
    /\ heap = EmptyHeap
    /\ roots = <<0, 0, 0>>
    /\ cd = cur
    /\ clast = NoCall
    /\ ncalls = 0
    /\ obj = <<>>
    /\ pop = "none"
    /\ parg = [f |-> 0, value |-> None_]
    /\ pyerr = ""
    /\ wire = <<>>
    /\ back = None_
    /\ got = None_
    /\ cwire = NoWire
    /\ cx = PyInt(0)
    /\ cw = 1
    /\ CodecIdle
    /\ LexIdle
    /\ SchemaIdle

\* {name}_verify(nbuf, sizeof nbuf)
CVerify ==
    /\ nver = "none"
    /\ nver' = IF c_verify(cur, nbuf) THEN "true" ELSE "false"
    /\ clast' = Call("verify", 0, c_verify(cur, nbuf), 0, FALSE)
    /\ UNCHANGED <<heap, roots, cd, ncalls, nbuf, ndes, codecVars, pyVars, schemaVars, lexVars>>

\* roots[3] = {name}_deserialize(nbuf, sizeof nbuf)
CDeserialize(fuel) ==
    /\ ndes = "none"
    /\ \E a \in {c_deserialize(heap, fuel, cur, nbuf)} :
           /\ heap' = a.h
           /\ roots' = [roots EXCEPT ![3] = a.p]
           /\ ndes' = IF a.p # 0 THEN "instance"
                      ELSE IF fuel = 0 THEN "nomem" ELSE "null"
           /\ clast' = Call("deserialize", 3, a.p # 0, 0, FALSE)
    /\ UNCHANGED <<cd, ncalls, nbuf, nver, codecVars, pyVars, schemaVars, lexVars>>

NextWire ==
    \/ CVerify
    \/ \E fuel \in {0, MaxAddr} : CDeserialize(fuel)

SpecWire == InitWire /\ [][NextWire]_vars

(***************************************************************************)
(* SpecSchema: main() on a schema text: the declarations the parser adds   *)
(* to Schema.definitions, then resolve_types, validate and the native      *)
(* header.                                                                 *)
(***************************************************************************)
\* the keys of BUILTIN_TYPES the texts below use, and of them those whose
\* primitive is in INTEGER_PRIMITIVES
BUILTIN_TYPES == {"uint8", "uint16", "int8", "boolean", "string"}
INTEGER_PRIMITIVES == {"uint8", "uint16", "int8"}

\* EnumMember(name, value) and StructMember(name, type, default, vector) as
\* the parser builds them: value and default are None_, I(n) or S(cs); a type
\* is the identifier of the text until resolve_type replaces it; field_id -1
\* stands for None
Member(name, type, default, vector, value) ==
    [name |-> name, type |-> [t |-> "id", n |-> type], default |-> default,
     vector |-> vector, value |-> value, field_id |-> -1]

\* EnumDefinition, StructDefinition and TableDefinition as the parser builds
\* them; table_id -1 stands for None
Definition(kind, name, size, members) ==
    [kind |-> kind, name |-> name, size |-> size, members |-> members,
     table_id |-> -1, next_value |-> 0, values |-> {}]

\* definitions[name]
Lookup(defs, name) == defs[CHOOSE i \in 1..Len(defs) : defs[i].name = name]

\* definitions[d.name] = d: a dict keeps the place of a key it already holds
dict_set(defs, d) ==
    IF \E i \in 1..Len(defs) : defs[i].name = d.name
    THEN [i \in 1..Len(defs) |-> IF defs[i].name = d.name THEN d ELSE defs[i]]
    ELSE Append(defs, d)

\* a resolve_value that would never hand out a value below one already used
resolve_value_ascending(parent, i) ==
    LET value == IF parent.members[i].value = None_ THEN parent.next_value
                 ELSE parent.members[i].value.v
        next == IF value + 1 > parent.next_value THEN value + 1 ELSE parent.next_value
    IN  [parent EXCEPT !.members[i].value = I(value),
                       !.values = @ \cup {value},
                       !.next_value = next]

\* EnumMember.resolve_value of member i of parent
resolve_value(parent, i) ==
    LET value == IF parent.members[i].value = None_ THEN parent.next_value
                 ELSE parent.members[i].value.v
    IN  [parent EXCEPT !.members[i].value = I(value),
                       !.values = @ \cup {value},
                       !.next_value = value + 1]

\* EnumDefinition.resolve_types, from member i on
RECURSIVE EnumDefinition_resolve_types(_, _)
EnumDefinition_resolve_types(e, i) ==
    IF e.size \notin INTEGER_PRIMITIVES
    THEN [err |-> [type |-> "TypeError", declaration |-> "", member |-> ""], d |-> e]
    ELSE IF i > Len(e.members) THEN [err |-> NoError, d |-> e]
    ELSE EnumDefinition_resolve_types(resolve_value(e, i), i + 1)

\* StructMember.resolve_type of every member of d (StructDefinition.resolve_types)
StructDefinition_resolve_types(defs, d) ==
    LET known(m) == m.type.n \in BUILTIN_TYPES
                    \/ \E i \in 1..Len(defs) : defs[i].name = m.type.n
        resolve_type(m) ==
            [m EXCEPT !.type = IF m.type.n \in BUILTIN_TYPES
                               THEN [t |-> "primitive", n |-> m.type.n]
                               ELSE [t |-> "definition", n |-> m.type.n]]
    IN  IF \E j \in 1..Len(d.members) : ~known(d.members[j])
        THEN [err |-> [type |-> "KeyError", declaration |-> "", member |-> ""], d |-> d]
        ELSE [err |-> NoError,
              d |-> [d EXCEPT !.members = [j \in 1..Len(d.members) |-> resolve_type(d.members[j])]]]

\* a structs that would let every declaration through
structs_all(defs) == defs

\* Schema.structs: the declarations that are no EnumDefinition, in order
structs(defs) == SelectSeq(defs, LAMBDA d : d.kind # "enum")

\* the first loop of Schema.resolve_types, from declaration i on
RECURSIVE resolve_each(_, _)
resolve_each(defs, i) ==
    IF i > Len(defs) THEN [err |-> NoError, defs |-> defs]
    ELSE CHOOSE out \in
           { IF r.err # NoError THEN [err |-> r.err, defs |-> defs]
             ELSE resolve_each([defs EXCEPT ![i] = r.d], i + 1)
             : r \in { IF defs[i].kind = "enum"
                       THEN EnumDefinition_resolve_types(defs[i], 1)
                       ELSE StructDefinition_resolve_types(defs, defs[i]) } } : TRUE

\* the second loop of Schema.resolve_types, from the i-th of st on
RECURSIVE assign_ids(_, _, _, _)
assign_ids(defs, st, i, next) ==
    IF i > Len(st) THEN [defs |-> defs, next_table_id |-> next]
    ELSE assign_ids(
           dict_set(defs,
             [st[i] EXCEPT !.table_id = next,
                           !.members = [j \in 1..Len(st[i].members) |->
                                          [st[i].members[j] EXCEPT !.field_id = j - 1]]]),
           st, i + 1, next + 1)

\* Schema.resolve_types
Schema_resolve_types(defs, next) ==
    CHOOSE out \in
      { IF r.err # NoError
        THEN [err |-> r.err, defs |-> defs, next_table_id |-> next]
        ELSE [err |-> NoError] @@ assign_ids(r.defs, structs(r.defs), 1, next)
        : r \in {resolve_each(defs, 1)} } : TRUE

\* a validate that would accept every default
validate_nothing(defs, d, j) == NoError

\* StructDefinition.validate of d, from member j on: the TypeError raised, or
\* NoError
RECURSIVE StructDefinition_validate(_, _, _)
StructDefinition_validate(defs, d, j) ==
    IF j > Len(d.members) THEN NoError
    ELSE LET m == d.members[j]
             raise == [type |-> "TypeError", declaration |-> d.name, member |-> m.name]
             next == StructDefinition_validate(defs, d, j + 1)
         IN  IF m.default = None_ THEN next
             ELSE IF m.type.t = "definition" /\ Lookup(defs, m.type.n).kind # "enum"
             THEN raise
             ELSE IF m.type.t = "definition"
             THEN (IF m.default.k = "int" /\ m.default.v \in Lookup(defs, m.type.n).values
                   THEN next ELSE raise)
             ELSE IF m.type.n \in INTEGER_PRIMITIVES
             THEN (IF m.default.k = "int" THEN next ELSE raise)
             ELSE IF m.type.n = "string"
             THEN (IF m.default.k = "str" THEN next ELSE raise)
             ELSE IF m.type.n = "boolean"
             THEN (IF m.default.k = "int" /\ m.default.v \in {0, 1} THEN next ELSE raise)
             ELSE raise

\* a Schema.validate that would look at no declaration
Schema_validate_skip(defs, i) == NoError

\* Schema.validate, from declaration i on; EnumDefinition.validate is "pass"
RECURSIVE Schema_validate(_, _)
Schema_validate(defs, i) ==
    IF i > Len(defs) THEN NoError
    ELSE CHOOSE out \in
           { IF e # NoError THEN e ELSE Schema_validate(defs, i + 1)
             : e \in { IF defs[i].kind = "enum" THEN NoError
                       ELSE StructDefinition_validate(defs, defs[i], 1) } } : TRUE

\* Schema.generate_python: the declarations as the call leaves them, and of
\* its output the classes, in order, and the entries of TABLE_ID_MAP
generate_python(defs) ==
    [definitions |-> defs,
     out |-> [classes |-> [i \in 1..Len(defs) |-> defs[i].name],
              TABLE_ID_MAP |-> [i \in 1..Len(structs(defs)) |->
                                 <<structs(defs)[i].table_id, structs(defs)[i].name>>]]]

\* Schema.generate_c_source: the declarations as the call leaves them, and
\* of its output the {name} of each group of functions, in order
generate_c_source(defs) ==
    [definitions |-> defs,
     out |-> [i \in 1..Len(structs(defs)) |-> structs(defs)[i].name]]

\* a generate_c_header that would renumber the declarations to tell their
\* constants from TABLE_TYPE_INVALID
generate_c_header_renumbering(defs) ==
    [definitions |-> [i \in 1..Len(defs) |->
                        IF defs[i].kind = "enum" THEN defs[i]
                        ELSE [defs[i] EXCEPT !.table_id = @ + 1]],
     out |-> <<<<"INVALID", 0>>>> \o
             [i \in 1..Len(structs(defs)) |->
                <<structs(defs)[i].name, structs(defs)[i].table_id + 1>>]]

\* Schema.generate_c_header: the declarations as the call leaves them, and
\* of its output the enumerators of typedef enum TableType_e
generate_c_header(defs) ==
    [definitions |-> defs,
     out |-> <<<<"INVALID", 0>>>> \o
             [i \in 1..Len(structs(defs)) |->
                <<structs(defs)[i].name, structs(defs)[i].table_id>>]]

\* The declarations a text is made of:
\*   enum Color { RED = 1, GREEN, BLUE }      enum Color : uint8 { A, B = 5, C, D = 5 }
\*   enum Mode { P = 2, Q = 0, R }            enum Mode : string { X }
\*   struct A { }                             table A { x: uint8 = 3; c: Color = 2; v: [uint8] = 5; }
\*   table B { a: A; s: string = "s"; on: boolean = true; }
\*   struct B { a: A = 0; }                   table B { s: string = 1; b: boolean = 2; }
\*   table C { n: uint8 = "s"; }              struct C { c: Color = 7; m: Mode = "s"; }
\*   table C { b: boolean = "s"; x: Nosuch; }
Declarations ==
    LET e(name, value) == Member(name, "", None_, FALSE, value)
        f(name, type, default) == Member(name, type, default, FALSE, None_)
        v(name, type, default) == Member(name, type, default, TRUE, None_)
    IN  { Definition("enum", "Color", "uint16",
                     <<e("RED", I(1)), e("GREEN", None_), e("BLUE", None_)>>),
          Definition("enum", "Color", "uint8",
                     <<e("A", None_), e("B", I(5)), e("C", None_), e("D", I(5))>>),
          Definition("enum", "Mode", "uint16",
                     <<e("P", I(2)), e("Q", I(0)), e("R", None_)>>),
          Definition("enum", "Mode", "string", <<e("X", None_)>>),
          Definition("struct", "A", "", <<>>),
          Definition("table", "A", "",
                     <<f("x", "uint8", I(3)), f("c", "Color", I(2)), v("v", "uint8", I(5))>>),
          Definition("table", "B", "",
                     <<f("a", "A", None_), f("s", "string", S(<<115>>)),
                       f("on", "boolean", I(1))>>),
          Definition("struct", "B", "", <<f("a", "A", I(0))>>),
          Definition("table", "B", "",
                     <<f("s", "string", I(1)), f("b", "boolean", I(2))>>),
          Definition("table", "C", "", <<f("n", "uint8", S(<<115>>))>>),
          Definition("struct", "C", "",
                     <<f("c", "Color", I(7)), f("m", "Mode", S(<<115>>))>>),
          Definition("table", "C", "",
                     <<f("b", "boolean", S(<<115>>)), f("x", "Nosuch", None_)>>) }

\* the number of entries of Schema.definitions the texts reach
MaxDecls == 3

InitSchema ==
    /\ definitions = <<>>
    /\ next_table_id = 0
    /\ sphase = "parse"
    /\ serror = NoError
    /\ TableType_e = <<>>
    /\ written = <<>>
    /\ exit_status = -1
    /\ cx = PyInt(0)
    /\ cw = 1
    /\ hostLE = TRUE
    /\ CodecIdle
    /\ LexIdle
    /\ PyIdle
    /\ CIdle
    /\ WireIdle

\* SeriaParser._schema: the next definition of the text
Declare(d) ==
    /\ sphase = "parse"
    /\ Len(definitions) < MaxDecls
    /\ definitions' = dict_set(definitions, d)
    /\ UNCHANGED <<next_table_id, sphase, serror, TableType_e, written, exit_status,
                   lexVars, codecVars, pyVars, cVars>>

\* the text does not lex (the lexer raises) or does not parse (parse returns
\* None and main returns 1).  SeriaParser defines no error method: what the
\* parser of the sly library does after a syntax error is not in the source,
\* and a parse that returns a Schema all the same is, for main, a parse that
\* succeeded (Declare).
ParseFails(how) ==
    /\ sphase = "parse"
    /\ sphase' = "error"
    /\ serror' = [type |-> how, declaration |-> "", member |-> ""]
    /\ exit_status' = 1
    /\ UNCHANGED <<definitions, next_table_id, TableType_e, written,
                   lexVars, codecVars, pyVars, cVars>>

\* schema.resolve_types() in main; an exception ends the run
ResolveTypes ==
    /\ sphase = "parse"
    /\ Len(definitions) > 0
    /\ \E r \in {Schema_resolve_types(definitions, next_table_id)} :
          /\ definitions' = r.defs
          /\ next_table_id' = r.next_table_id
          /\ serror' = r.err
          /\ sphase' = IF r.err = NoError THEN "resolved" ELSE "error"
          /\ exit_status' = IF r.err = NoError THEN exit_status ELSE 1
    /\ UNCHANGED <<TableType_e, written, lexVars, codecVars, pyVars, cVars>>

\* schema.validate() in main; an exception ends the run
Validate ==
    /\ sphase = "resolved"
    /\ \E e \in {Schema_validate(definitions, 1)} :
          /\ serror' = e
          /\ sphase' = IF e = NoError THEN "valid" ELSE "error"
          /\ exit_status' = IF e = NoError THEN exit_status ELSE 1
    /\ UNCHANGED <<definitions, next_table_id, TableType_e, written,
                   lexVars, codecVars, pyVars, cVars>>

\* python_lib = schema.generate_python(), written to args.python
WritePython ==
    /\ sphase = "valid"
    /\ \E r \in {generate_python(definitions)} :
          /\ definitions' = r.definitions
          /\ written' = Append(written, <<"python", r.out>>)
    /\ sphase' = "python"
    /\ UNCHANGED <<next_table_id, serror, TableType_e, exit_status,
                   lexVars, codecVars, pyVars, cVars>>

\* c_source = schema.generate_c_source(...), written to args.c_source
WriteCSource ==
    /\ sphase = "python"
    /\ \E r \in {generate_c_source(definitions)} :
          /\ definitions' = r.definitions
          /\ written' = Append(written, <<"c_source", r.out>>)
    /\ sphase' = "c_source"
    /\ UNCHANGED <<next_table_id, serror, TableType_e, exit_status,
                   lexVars, codecVars, pyVars, cVars>>

\* c_header = schema.generate_c_header(), written to args.c_header; return 0
GenerateHeader ==
    /\ sphase = "c_source"
    /\ \E r \in {generate_c_header(definitions)} :
          /\ definitions' = r.definitions
          /\ TableType_e' = r.out
          /\ written' = Append(written, <<"c_header", r.out>>)
    /\ sphase' = "header"
    /\ exit_status' = 0
    /\ UNCHANGED <<next_table_id, serror, lexVars, codecVars, pyVars, cVars>>

NextSchema ==
    \/ \E d \in Declarations : Declare(d)
    \/ \E how \in {"LexError", "None"} : ParseFails(how)
    \/ ResolveTypes
    \/ Validate
    \/ WritePython
    \/ WriteCSource
    \/ GenerateHeader

SpecSchema == InitSchema /\ [][NextSchema]_vars

(***************************************************************************)
(* The claims.                                                             *)
(***************************************************************************)
\* a member that v holds: set, and not an empty unbounded vector
MemberPresent(m, slot) == slot.k # "none" /\ ~(Unbounded(m) /\ slot = L(<<>>))

\* structural equality of two Python values: the same members present, with
\* equal values (True = 1 and Color.GREEN = 2, as in Python)
RECURSIVE SameValue(_, _)
SameValue(a, b) ==
    IF a.k = "obj" /\ b.k = "obj" THEN
        /\ a.v.d = b.v.d
        /\ \A f \in 1..NMembers(a.v.d) :
             LET m == Members(a.v.d)[f]
             IN  /\ MemberPresent(m, a.v.f[f]) <=> MemberPresent(m, b.v.f[f])
                 /\ MemberPresent(m, a.v.f[f]) => SameValue(a.v.f[f], b.v.f[f])
    ELSE IF a.k = "list" /\ b.k = "list" THEN
        /\ Len(a.v) = Len(b.v)
        /\ \A i \in 1..Len(a.v) : SameValue(a.v[i], b.v[i])
    ELSE IF a.k \in {"int", "bool", "enum"} /\ b.k \in {"int", "bool", "enum"} THEN
        a.v = b.v
    ELSE IF a.k # b.k THEN FALSE
    ELSE a.v = b.v

\* the varint of section 4.5: the marker (or the value itself) and the number
\* of bytes that follow it
VarintMarker(mag) ==
    IF Len(mag) > 4 THEN 255
    ELSE IF Len(mag) > 2 THEN 254
    ELSE IF Len(mag) = 2 \/ (Len(mag) = 1 /\ mag[1] >= 253) THEN 253
    ELSE IF mag = <<>> THEN 0 ELSE mag[1]

VarintBody(mag) ==
    IF Len(mag) > 4 THEN 8
    ELSE IF Len(mag) > 2 THEN 4
    ELSE IF Len(mag) = 2 \/ (Len(mag) = 1 /\ mag[1] >= 253) THEN 2
    ELSE 0

\* b starts with the varint of mag, its body in either byte order
StartsWithVarint(b, mag) ==
    /\ Len(b) >= 1 + VarintBody(mag)
    /\ b[1] = VarintMarker(mag)
    /\ VarintBody(mag) > 0 =>
         LET body == SubSeq(b, 2, 1 + VarintBody(mag))
         IN  Norm(body) = mag \/ Norm(Reverse(body)) = mag

\* C1: Class.deserialize(v.serialize()) returns a value structurally equal to
\* v: every member present in v is present with an equal value, every member
\* absent in v is absent.  (Stated for the classes whose table_id takes one
\* byte, where the table id prefix of C4 is well formed.)
C1_RoundTrip ==
    (pop = "deserialize" /\ table_id(cur) < 253) =>
        pyerr = "" /\ SameValue(back, O(cur, obj))

\* C2: the bytes the native serialize returns for v are the bytes the dynamic
\* serialize returns for the same v.
C2_SameBytes ==
    (pop = "c_serialize" /\ ~cwire.crashed) =>
        /\ cwire.size = Len(wire)
        /\ Len(cwire.mem) >= cwire.size
        /\ SubSeq(cwire.mem, 1, cwire.size) = wire

\* C4: the leading bytes of the dynamic serialize output are the varint of the
\* declaration's table_id, whatever the table_id.
C4_TableIdPrefix ==
    (pop = "serialize" /\ pyerr = "") =>
        StartsWithVarint(wire, PyInt(table_id(cur)).mag)

\* C5: the varint encoder of both emitters writes the shortest form: one byte
\* up to 0xFC, marker 0xFD and 2 bytes up to 0xFFFF, marker 0xFE and 4 bytes
\* up to 0xFFFFFFFF, marker 0xFF and 8 bytes holding v above that.
C5_ShortestForm ==
    cop \in {"py_varint", "c_varint"} =>
        /\ cerr = ""
        /\ Len(cbuf) = 1 + VarintBody(cx.mag)
        /\ StartsWithVarint(cbuf, cx.mag)

\* C6: every multi-byte integer the generated code writes or reads has its
\* least significant byte first: the uintN helpers, the varint body,
\* unsigned_int, and the native deserialize.
C6_LittleEndian ==
    /\ (cop = "uintN" /\ cerr = "") => cbuf = Pad(cx.mag, cw)
    /\ (cop = "py_varint" /\ cerr = "" /\ Len(cbuf) > 1) =>
          Tail(cbuf) = Pad(cx.mag, Len(cbuf) - 1)
    /\ cop = "unsigned_int" => cval.mag = Norm(cbuf)
    /\ (cop = "c_unint" /\ cerr = "") => cval.mag = Norm(cbuf)

\* C3 (amended): when the {name}_new() inside {name}_deserialize is given
\* memory, {name}_verify(b) returns true exactly when {name}_deserialize(b)
\* returns a non-null instance.
C3_VerifyIffDeserialize ==
    (nver # "none" /\ ndes \in {"instance", "null"}) =>
        (nver = "true" <=> ndes = "instance")

C3_Witness == nver = "true" /\ ndes = "instance" /\ Len(nbuf) > 1

\* C3 as stated: verify(b) is true exactly when deserialize(b) is non-null,
\* whatever the allocator does.
C3_Original ==
    (nver # "none" /\ ndes # "none") => (nver = "true" <=> ndes = "instance")

\* C14: verify returns true only when the buffer is one whole frame of the
\* class and nothing more: the table_id varint, the bitmap of ceil(N/8) bytes
\* and the payloads the bitmap announces end exactly at buffer_size. A frame
\* whose bitmap announces no payload ends right after the bitmap, so a buffer
\* that goes on after it, or stops before the bitmap is complete, is refused.
C14_VerifyWholeFrame ==
    nver = "true" =>
        LET start == deserialize_c_varint(nbuf, 0).bytes_read
            width == (NMembers(cur) + 7) \div 8
        IN  /\ Len(nbuf) >= start + width
            /\ (\A i \in (start + 1)..(start + width) : nbuf[i] = 0)
                  => Len(nbuf) = start + width

\* the number of allocated blocks
c_live(h) == Cardinality({a \in Addrs : h.m[a].kind # "free"})

\* the number of bytes the varint at the head of b takes, by its marker
VarintWidth(b) ==
    IF b[1] = 255 THEN 9 ELSE IF b[1] = 254 THEN 5 ELSE IF b[1] = 253 THEN 3 ELSE 1

\* b is empty or stops inside its leading varint
Truncated(b) == Len(b) = 0 \/ Len(b) < VarintWidth(b)

\* the value of the varint at the head of b, least significant byte first
VarintValue(b) ==
    IF VarintWidth(b) = 1 THEN Norm(<<b[1]>>) ELSE Norm(SubSeq(b, 2, VarintWidth(b)))

\* the highest buffer index deserialize reads, -1 when it reads none: the
\* marker at index 0 once buffer_size > 0, and the integer behind it once
\* the bound check of deserialize_c_int has passed
c_last_read(b) ==
    IF Len(b) = 0 THEN -1
    ELSE IF deserialize_c_varint(b, 0).ok THEN deserialize_c_varint(b, 0).bytes_read - 1
    ELSE 0

\* deserialize has returned NULL and holds no block: the instance it had
\* allocated is freed, once
c_refused ==
    /\ ndes \in {"null", "nomem"}
    /\ roots[3] = 0
    /\ c_live(heap) = 0
    /\ ~heap.bad

\* C15: deserialize returns NULL, the instance it had allocated freed, for
\* every buffer that is empty, that ends inside its leading varint, or whose
\* leading varint decodes to a value other than the table_id; and it reads no
\* byte at an index >= buffer_size.
C15_DeserializeRefuses ==
    ndes # "none" =>
        /\ c_last_read(nbuf) < Len(nbuf)
        /\ Truncated(nbuf) => c_refused
        /\ (~Truncated(nbuf) /\ VarintValue(nbuf) # PyInt(table_id(cur)).mag)
              => c_refused

\* C15 with the varint decoded as deserialize_c_int decodes it, most
\* significant byte first: every other part of C15
C15_ErrorPaths ==
    ndes # "none" =>
        /\ c_last_read(nbuf) < Len(nbuf)
        /\ Truncated(nbuf) => c_refused
        /\ (~Truncated(nbuf) /\ deserialize_c_varint(nbuf, 0).val # PyInt(table_id(cur)).mag)
              => c_refused

\* the blocks the instance at rs[r] owns
c_owned(h, rs, r) == IF rs[r] = 0 THEN {} ELSE c_blocks(h, rs[r])

\* a call on the instance call.r leaves every other instance where it was,
\* with every block it owns allocated and every member as it was, and no two
\* instances own a block in common
c_frame(h, rs, h2, rs2, call) ==
    /\ \A r \in 1..3 :
          (rs[r] # 0 /\ call.r # r) =>
             /\ rs2[r] = rs[r]
             /\ \A a \in c_blocks(h2, rs[r]) : a # 0 /\ h2.m[a].kind # "free"
             /\ c_value(h2, rs[r]) = c_value(h, rs[r])
    /\ \A r1 \in 1..3 : \A r2 \in 1..3 :
          r1 # r2 => c_owned(h2, rs2, r1) \cap c_owned(h2, rs2, r2) = {}

\* C9: a copy shares no heap block with its source: a later set on the source
\* leaves every member of the copy unchanged, and a free of either leaves
\* every member of the other valid and unchanged; the same holds between the
\* instance a setter was handed and the copy it stored.
C9_DeepCopy == [][c_frame(heap, roots, heap', roots', clast')]_vars

\* the source of a copy that holds an Inner_t holding x has been freed
C9_Witness ==
    /\ clast.op = "free"
    /\ clast.r = 2
    /\ roots[3] # 0
    /\ cd = 5
    /\ heap.m[roots[3]].p[1]
    /\ heap.m[heap.m[roots[3]].f[1]].p[1]

\* the blocks member f of the instance at s owns
c_member_blocks(h, s, f) ==
    LET m == Members(h.m[s].d)[f]
        own(v) == IF m.kind = "struct" THEN c_blocks(h, v) ELSE {v}
    IN  IF ~h.m[s].p[f] \/ (m.kind \notin {"str", "struct"} /\ ~Unbounded(m)) THEN {}
        ELSE IF m.vector
        THEN (IF m.vsize = -1 THEN {h.m[s].f[f].arr} ELSE {})
             \cup (IF m.kind \in {"str", "struct"}
                   THEN UNION {own(c_elems(h, s, f)[i]) : i \in 1..Len(c_elems(h, s, f))}
                   ELSE {})
        ELSE own(h.m[s].f[f])

\* member f holds pointers: a string, a struct or table, or a vector
c_allocates(m) == m.vector \/ m.kind \in {"str", "struct"}

\* what C11 asks of one call of the setter of member call.f on the instance s
c_set_contract(h, h2, s, call) ==
    /\ ~call.ok => ~h2.m[s].p[call.f]
    /\ call.ok =>
          /\ h2.m[s].p[call.f]
          /\ ~h2.bad
          /\ c_live(h2) = c_live(h) - Cardinality(c_member_blocks(h, s, call.f))
                                   + Cardinality(c_member_blocks(h2, s, call.f))

\* C11: the setter of a string, struct/table or vector member returns false
\* with the presence bit false when an allocation in it fails; when it
\* succeeds it returns true with the presence bit true, and the blocks of the
\* value the member held have each been freed once: no block is freed twice
\* and the allocated blocks are those held before, less the old value's, plus
\* the new copy's.
C11_SetterContract ==
    [][(clast'.op = "set" /\ c_allocates(Members(RootClass(clast'.r))[clast'.f]))
          => c_set_contract(heap, heap', roots[clast'.r], clast')]_vars

\* a setter has replaced a vector of Inner_t it held by a new one
C11_Witness ==
    /\ clast.op = "set"
    /\ clast.ok
    /\ clast.had
    /\ cd = 5
    /\ clast.r = 2
    /\ clast.f = 2
    /\ Len(c_elems(heap, roots[2], 2)) > 0

\* the value of member f of *s as the caller reads it through what the getter
\* stored: x is the stored pointer or integer, n the stored length
c_read(h, s, f, x, n) ==
    LET m == Members(h.m[s].d)[f]
    IN  IF ~m.vector THEN x
        ELSE IF x.t = "inline" THEN Vec(h.m[x.v[1]].f[x.v[2]])
        ELSE IF x.t = "ptr" /\ n = 0 THEN Vec(<<>>)
        ELSE IF x.t = "ptr" /\ x.v # 0 /\ h.m[x.v].kind = "arr"
        THEN Vec(SubSeq(h.m[x.v].f, 1, n))
        ELSE x

\* the value member f of *s holds
c_held(h, s, f) ==
    LET m == Members(h.m[s].d)[f]
    IN  IF m.vector THEN Vec(c_elems(h, s, f))
        ELSE IF m.kind \in {"str", "struct"} THEN Ptr(h.m[s].f[f])
        ELSE Imm(h.m[s].f[f])

\* the value the schema declares as the default of m, in the type of m: for
\* a vector member, a vector whose elements are the declared default
c_default_value(m, n) ==
    IF m.vector THEN Vec([i \in 1..(IF m.vsize = -1 THEN n ELSE m.vsize) |-> m.dflt.v])
    ELSE IF m.kind = "str" THEN Lit(m.dflt.v)
    ELSE Imm(m.dflt.v)

\* C12: the getter of a present member stores the held value (and the held
\* length of an unbounded vector) and returns true; the getter of an absent
\* member with a default stores the default and returns true; the getter of
\* an absent member without a default returns false and stores nothing.
C12_GetterContract ==
    clast.op = "get" =>
        LET s == roots[clast.r]
            m == Members(heap.m[s].d)[clast.f]
            out == clast.out
        IN  /\ clast.had =>
                  /\ clast.ok /\ out.wrote
                  /\ Unbounded(m) =>
                        out.wrote_length /\ out.length = heap.m[s].f[clast.f].len
                  /\ c_read(heap, s, clast.f, out.value, out.length)
                        = c_held(heap, s, clast.f)
            /\ (~clast.had /\ m.dflt.k # "none") =>
                  /\ clast.ok /\ out.wrote
                  /\ Unbounded(m) => out.wrote_length
                  /\ c_read(heap, s, clast.f, out.value, out.length)
                        = c_default_value(m, out.length)
            /\ (~clast.had /\ m.dflt.k = "none") =>
                  ~clast.ok /\ ~out.wrote /\ ~out.wrote_length

\* every allocated block belongs to an instance: it is the instance itself or
\* the value of one of its present members, and nothing was freed twice
c_tidy(h, rs) ==
    /\ ~h.bad
    /\ {a \in Addrs : h.m[a].kind # "free"} = UNION {c_owned(h, rs, r) : r \in 1..3}

\* C16: through new, any setters (succeeding or failing, also at element i of
\* the copy loop of a string or struct vector) and one free, every block
\* allocated for the instance is freed exactly once: a setter, failed or not,
\* leaves the instance holding only the values of its present members (no
\* partially filled array), and free releases all of them, once.
C16_NoLeak ==
    [][(clast'.op \in {"new", "set", "free"} /\ c_tidy(heap, roots))
          => c_tidy(heap', roots')]_vars

\* resolve has run to its end
Resolved == sphase \in {"resolved", "valid", "header"}

\* C17: after resolve the struct and table declarations carry the table_ids
\* 0, 1, ..., k-1 in their order in the schema (each has as its id the number
\* of structs and tables before it), an enum carries none and uses none up,
\* and the members of a declaration carry the field_ids 0, 1, ..., n-1 in
\* declaration order.
C17_DenseIds ==
    Resolved =>
        /\ \A i \in 1..Len(definitions) :
             LET d == definitions[i]
             IN  IF d.kind = "enum" THEN d.table_id = -1
                 ELSE /\ d.table_id =
                           Cardinality({j \in 1..(i - 1) : definitions[j].kind # "enum"})
                      /\ \A j \in 1..Len(d.members) : d.members[j].field_id = j - 1
        /\ next_table_id =
             Cardinality({j \in 1..Len(definitions) : definitions[j].kind # "enum"})

\* C17's case: an enum declared between two declarations with members, the
\* later of them with more than one member
C17_Witness ==
    /\ sphase = "resolved"
    /\ Len(definitions) = 3
    /\ definitions[1].kind = "table" /\ Len(definitions[1].members) > 0
    /\ definitions[2].kind = "enum"
    /\ definitions[3].table_id = 1
    /\ Len(definitions[3].members) > 1

\* C18: resolve leaves every member of every enum with an integer value: the
\* value the text gives it, else the value of the member before it plus 1,
\* else 0 for a first member; equal values are accepted; and the values the
\* enum records are exactly the values of its members.
C18_EnumValues ==
    [][(sphase = "parse" /\ sphase' = "resolved") =>
          \A i \in 1..Len(definitions) :
             definitions[i].kind = "enum" =>
                LET parsed == definitions[i].members
                    after == definitions'[i].members
                IN  /\ Len(after) = Len(parsed)
                    /\ \A j \in 1..Len(parsed) :
                         /\ after[j].value.k = "int"
                         /\ parsed[j].value # None_ => after[j].value = parsed[j].value
                         /\ (parsed[j].value = None_ /\ j > 1)
                               => after[j].value.v = after[j - 1].value.v + 1
                         /\ (parsed[j].value = None_ /\ j = 1) => after[j].value.v = 0
                    /\ definitions'[i].values =
                         {after[j].value.v : j \in 1..Len(after)}]_vars

\* C18's case: an enum whose first member has no value, with two members of
\* one value, and an enum whose values go down and then on
C18_Witness ==
    /\ sphase = "resolved"
    /\ \E i \in 1..Len(definitions) :
          /\ definitions[i].kind = "enum"
          /\ Len(definitions[i].members) = 4
          /\ definitions[i].members[1].value = I(0)
          /\ definitions[i].members[2].value = definitions[i].members[4].value
          /\ definitions[i].values = {0, 5, 6}
    /\ \E i \in 1..Len(definitions) :
          /\ definitions[i].kind = "enum"
          /\ definitions[i].members[2].value = I(0)
          /\ definitions[i].members[3].value = I(1)

\* member j of declaration i has a default that C19 forbids
Forbidden(defs, i, j) ==
    LET m == defs[i].members[j]
        type == IF m.type.t = "definition" THEN Lookup(defs, m.type.n).kind
                ELSE m.type.n
    IN  /\ defs[i].kind # "enum"
        /\ m.default # None_
        /\ \/ type \in {"struct", "table"}
           \/ type = "enum"
              /\ ~(m.default.k = "int" /\ m.default.v \in Lookup(defs, m.type.n).values)
           \/ type \in INTEGER_PRIMITIVES /\ m.default.k # "int"
           \/ type = "string" /\ m.default.k # "str"
           \/ type = "boolean" /\ m.default \notin {I(0), I(1)}

\* C19: validate raises an error exactly when some member has a forbidden
\* default (on a struct or table type; outside the value set of its enum; no
\* integer on an integer primitive; no string on a string; neither 0 nor 1 on
\* a boolean), the error names the declaration and the member of such a
\* default, and every other schema is accepted.
C19_ValidateDefaults ==
    [][sphase = "resolved" =>
          LET bad == {ij \in (1..Len(definitions)) \X (1..3) :
                         /\ ij[2] <= Len(definitions[ij[1]].members)
                         /\ Forbidden(definitions, ij[1], ij[2])}
          IN  /\ bad = {} => sphase' = "valid" /\ serror' = NoError
              /\ bad # {} =>
                    /\ sphase' = "error"
                    /\ \E ij \in bad :
                          /\ serror'.declaration = definitions[ij[1]].name
                          /\ serror'.member = definitions[ij[1]].members[ij[2]].name]_vars

\* C19's case: a schema refused for a default outside the value set of an
\* enum, its other declarations being accepted
C19_Witness ==
    /\ sphase = "error"
    /\ serror = [type |-> "TypeError", declaration |-> "C", member |-> "c"]
    /\ Len(definitions) = 3
    /\ definitions[3].members[1].type.t = "definition"

\* C20: in the native header TABLE_TYPE_INVALID is 0 and the constant of
\* every struct and table is its table_id + 1: no constant is
\* TABLE_TYPE_INVALID, and no two constants are equal.
C20_TableTypes ==
    sphase = "header" =>
        /\ TableType_e[1] = <<"INVALID", 0>>
        /\ \A i \in 1..Len(definitions) :
              definitions[i].kind # "enum" =>
                 \E k \in 2..Len(TableType_e) :
                    TableType_e[k] = <<definitions[i].name, definitions[i].table_id + 1>>
        /\ \A k \in 2..Len(TableType_e) : TableType_e[k][2] # 0
        /\ \A k \in 1..Len(TableType_e) : \A l \in 1..Len(TableType_e) :
              k # l => TableType_e[k][2] # TableType_e[l][2]

Listed(d) ==
    [name |-> d.name, kind |-> d.kind, table_id |-> d.table_id,
     members |-> [j \in 1..Len(d.members) |->
                     <<d.members[j].name, d.members[j].type, d.members[j].default,
                       d.members[j].vector, d.members[j].field_id, d.members[j].value>>]]

C12_ScalarGetters ==
    (clast.op = "get" /\ ~(Members(cd)[clast.f].vector /\ clast.r = 2
                             /\ Members(cd)[clast.f].dflt.k # "none"))
        => C12_GetterContract

\* the payloads of the present members from member f on, in field_id order
RECURSIVE PayloadsFrom(_, _, _)
PayloadsFrom(d, slots, f) ==
    IF f > NMembers(d) THEN <<>>
    ELSE (IF MemberPresent(Members(d)[f], slots[f])
          THEN py_member(Members(d)[f], slots[f],
                         [err |-> "", buf |-> <<>>, data |-> <<>>]).buf
          ELSE <<>>) \o PayloadsFrom(d, slots, f + 1)

BitOf(byte, bit) == (byte \div (2 ^ bit)) % 2

C13_NativeFrame ==
    (pop = "c_serialize" /\ ~cwire.crashed) =>
        LET id == PyInt(table_id(cur)).mag
            head == 1 + VarintBody(id)
            n == NMembers(cur)
            width == (n + 7) \div 8
            frame == SubSeq(cwire.mem, 1, cwire.size)
        IN  /\ Len(cwire.mem) >= cwire.size
            /\ StartsWithVarint(frame, id)
            /\ cwire.size = head + width + Len(PayloadsFrom(cur, obj, 1))
            /\ \A f \in 0..(n - 1) :
                 BitOf(frame[head + (f \div 8) + 1], 7 - (f % 8)) = 1
                    <=> MemberPresent(Members(cur)[f + 1], obj[f + 1])

\* a string of fewer than 253 bytes as section 4.5 frames it: the number of
\* bytes of its UTF-8 encoding, then those bytes
StringFrame(cs) == <<Len(utf8(cs))>> \o utf8(cs)

RECURSIVE StringFrames(_)
StringFrames(xs) ==
    IF xs = <<>> THEN <<>> ELSE StringFrame(Head(xs).v) \o StringFrames(Tail(xs))

\* the bytes of the serialize output behind the table id and the bitmap
Payload ==
    SubSeq(wire, Len(py_table_id_bytes(table_id(cur))) + ((NMembers(cur) + 7) \div 8) + 1,
           Len(wire))

\* the only present member of the value is member f
OnlyPresent(f) ==
    \A g \in 1..NMembers(cur) : MemberPresent(Members(cur)[g], obj[g]) <=> g = f

\* C21: the length prefix serialize writes before a string member, and before
\* each element of a string vector, is the number of bytes of the string's
\* UTF-8 encoding, which are the bytes that follow it; also for strings with
\* characters outside ASCII.
C21_StringByteLength ==
    (pop = "serialize" /\ pyerr = "") =>
        \A f \in 1..NMembers(cur) :
            (OnlyPresent(f) /\ Members(cur)[f].kind = "str") =>
                IF Members(cur)[f].vector
                THEN Payload = <<Len(obj[f].v)>> \o StringFrames(obj[f].v)
                ELSE Payload = StringFrame(obj[f].v)

\* booleans packed most significant bit first: element i (from 0) is bit
\* 7 - (i mod 8) of byte i div 8, ceil(c/8) bytes, the unused bits 0
PackedBits(xs) ==
    LET bit(i) == IF i < Len(xs) /\ xs[i + 1].v # 0 THEN 1 ELSE 0
    IN  [k \in 1..((Len(xs) + 7) \div 8) |->
            128 * bit(8 * k - 8) + 64 * bit(8 * k - 7) + 32 * bit(8 * k - 6)
            + 16 * bit(8 * k - 5) + 8 * bit(8 * k - 4) + 4 * bit(8 * k - 3)
            + 2 * bit(8 * k - 2) + bit(8 * k - 1)]

\* a boolean vector of fewer than 253 elements as section 4.5 encodes it
BoolVectorFrame(m, xs) == (IF Unbounded(m) THEN <<Len(xs)>> ELSE <<>>) \o PackedBits(xs)

\* C22 for the dynamic emitter: the payload of a present boolean vector
C22_PyPackedBooleans ==
    (pop = "serialize" /\ pyerr = "") =>
        \A f \in 1..NMembers(cur) :
            (OnlyPresent(f) /\ Members(cur)[f].kind = "bool" /\ Members(cur)[f].vector)
                => Payload = BoolVectorFrame(Members(cur)[f], obj[f].v)

\* C22: in both emitters a present boolean vector of count c takes ceil(c/8)
\* bytes, element i being bit 7 - (i mod 8) of byte i div 8 and the unused
\* bits 0, behind varint(c) when the vector is unbounded: these bytes are the
\* payload of the dynamic serialize output and the end of the buffer the
\* native serialize returns.
C22_PackedBooleans ==
    /\ C22_PyPackedBooleans
    /\ (pop = "c_serialize" /\ ~cwire.crashed) =>
          \A f \in 1..NMembers(cur) :
              (OnlyPresent(f) /\ Members(cur)[f].kind = "bool" /\ Members(cur)[f].vector)
                  => LET frame == SubSeq(cwire.mem, 1, cwire.size)
                         enc == BoolVectorFrame(Members(cur)[f], obj[f].v)
                     IN  /\ Len(cwire.mem) >= cwire.size
                         /\ Len(frame) >= Len(enc)
                         /\ SubSeq(frame, Len(frame) - Len(enc) + 1, Len(frame)) = enc

C8_DefaultTransparency ==
    /\ \A f \in 1..NMembers(cur) :
         LET m == Members(cur)[f]
         IN  (pop = "get" /\ parg.f = f /\ m.dflt.k # "none" /\ obj[f] = py_initialize(m))
                => SameValue(got, m.dflt)
    /\ (pop = "serialize" /\ pyerr = ""
          /\ \A f \in 1..NMembers(cur) : obj[f] = py_initialize(Members(cur)[f]))
         => wire = py_table_id_bytes(table_id(cur)) \o Zeros((NMembers(cur) + 7) \div 8)

\* C10: the setter of a fixed-size vector [T:n] rejects every list whose length
\* is not n, leaving the stored value as it was, and accepts every list of
\* length n, for every n including 0.
C10_FixedSizeRejection ==
    \A f \in 1..NMembers(cur) :
        LET m == Members(cur)[f]
        IN  (pop = "set" /\ parg.f = f /\ m.vector /\ m.vsize # -1
               /\ parg.value.k = "list")
              => IF Len(parg.value.v) = m.vsize
                 THEN pyerr = "" /\ obj[f] = parg.value
                 ELSE pyerr = "ValueError" /\ obj[f] # parg.value


\* the members __repr__ has listed
ReprFields == {got.v[i].f : i \in 1..Len(got.v)}

\* C25: the readable representation lists exactly the present members: a
\* member that holds nothing is not listed, whether or not it has a default,
\* and every member that holds a value is listed with that value, once.
C25_ReprListsPresent ==
    (pop = "repr" /\ pyerr = "") =>
        /\ ReprFields = {f \in 1..NMembers(cur) : MemberPresent(Members(cur)[f], obj[f])}
        /\ Len(got.v) = Cardinality(ReprFields)
        /\ \A i \in 1..Len(got.v) : got.v[i].value = obj[got.v[i].f]


\* the four forms of a number literal: decimal digits, 0x and hexadecimal
\* digits, a character in single quotes, an escape in single quotes
DecimalLiteral(t) == t # <<>> /\ \A k \in 1..Len(t) : t[k] \in Digits

HexLiteral(t) ==
    /\ Len(t) > 2
    /\ SubSeq(t, 1, 2) = <<48, 120>>
    /\ \A k \in 3..Len(t) : t[k] \in HexDigits

CharLiteral(t) == Len(t) = 3 /\ t[1] = 39 /\ t[3] = 39 /\ t[2] \notin {39, 92}

EscapeLiteral(t) == Len(t) = 4 /\ t[1] = 39 /\ t[2] = 92 /\ t[4] = 39

LiteralValue(t) ==
    IF DecimalLiteral(t) THEN int(t, 10)
    ELSE IF HexLiteral(t) THEN int(SubSeq(t, 3, Len(t)), 16)
    ELSE IF CharLiteral(t) THEN t[2]
    ELSE ESCAPE_CODES[t[3]]

\* C26: the lexer turns a number literal into one NUMBER_LITERAL token that
\* takes all its characters and carries its integer value: the decimal or
\* hexadecimal value, the code of the character, the code of the escape; an
\* escape that is not one of r n t v \ ' " 0-9 raises an error instead.
C26_NumberLiterals ==
    [][(index = 0 /\ (DecimalLiteral(text) \/ HexLiteral(text)
                        \/ CharLiteral(text) \/ EscapeLiteral(text))) =>
          IF EscapeLiteral(text) /\ text[3] \notin DOMAIN ESCAPE_CODES
          THEN tok'.err # ""
          ELSE /\ tok' = [type |-> "NUMBER_LITERAL", value |-> LiteralValue(text),
                          err |-> ""]
               /\ index' = Len(text)]_vars


\* C27: for every class, Class.deserialize(Class().serialize()) succeeds and
\* returns an instance of that class in which every member is absent.
C27_EmptyRoundTrip ==
    (pop = "deserialize" /\ obj = py_new(cur)) =>
        /\ pyerr = ""
        /\ back.k = "obj"
        /\ back.v.d = cur
        /\ \A f \in 1..NMembers(cur) : ~MemberPresent(Members(cur)[f], back.v.f[f])


\* C28: for every v in 0 .. 2^64 - 1 the dynamic encoder of variable-length
\* integers encodes v without error, and the dynamic decoder run on those
\* bytes returns v and leaves the cursor after the last byte written.
C28_PyVarintRoundTrip ==
    /\ cop = "py_varint" => cerr = ""
    /\ cop = "py_unvarint" => (cerr = "" /\ cval = cx /\ cidx = Len(cbuf))


\* C29: when the native T_serialize returns, the bytes it has written, from
\* offset 0 on, all lie inside the buffer it has allocated, and the size it
\* stores through out_buffer_size is the number of bytes it has written.
C29_NativeSerializeInBounds ==
    pop = "c_serialize" =>
        /\ Len(cwire.mem) <= cwire.alloc
        /\ cwire.size = Len(cwire.mem)


\* the values of a signed integer type of w bytes
SignedRange(w) == (0 - 2 ^ (8 * w - 1))..(2 ^ (8 * w - 1) - 1)

\* C30: for a member of a signed integer primitive of w bytes, the dynamic
\* serialize succeeds for every value in -2^(8w-1) .. 2^(8w-1)-1, negative
\* values included, and writes w bytes, the two's complement of the value
\* (in one byte order or the other).
C30_SignedIntegers ==
    pop = "serialize" =>
        \A f \in 1..NMembers(cur) :
            LET m == Members(cur)[f]
            IN  (/\ OnlyPresent(f)
                 /\ m.kind = "int" /\ m.signed /\ ~m.vector
                 /\ obj[f].v \in SignedRange(m.width)) =>
                   /\ pyerr = ""
                   /\ Payload \in {TwosComplement(PyInt(obj[f].v), m.width),
                                   Reverse(TwosComplement(PyInt(obj[f].v), m.width))}

====
